---------------------------- MODULE Spec2Model ----------------------------
(***************************************************************************)
(* Notification / alarm lifecycle engine of the medication-alarm app.      *)
(*                                                                         *)
(* Modelled from src/app/(tabs)/index.tsx (component Home, lines 930 ff.)  *)
(* and src/app/(tabs)/add-medication.tsx (component AddMedication).        *)
(*                                                                         *)
(* Concurrency: one JavaScript event loop.  A handler runs without         *)
(* preemption up to its next `await`; every step of the model is one such  *)
(* run.  A step that resumes after `await f()` applies the effect of the   *)
(* native call f (its linearisation point is its completion) and then runs *)
(* the code up to the next `await`.  Calls issued without `await`          *)
(* (sound.stopAsync(); sound.unloadAsync() in index.tsx) take effect at    *)
(* the call.  Timers (setTimeout / setInterval) are pending tasks that     *)
(* fire at some later step.                                                *)
(***************************************************************************)
EXTENDS Integers, FiniteSets, Sequences, Bags, TLC

VARIABLES
    scheduled,           \* OS scheduler: set of entries, one per identifier
    presented,           \* OS tray: set of entries currently visible
    notificationAlarms,  \* [screen -> [identifier -> handle | NoHandle]]
    activeSounds,        \* [screen -> set of handles]
    sounds,              \* sequence: every Audio.Sound ever created: its state,
                         \* and the screen and identifier it was created for
    tasks,               \* bag of suspended continuations and pending timers
    watchdogs,           \* sequence: state of every dismissal watchdog armed
    clock,               \* number of Date.now() values handed out so far
    armed,               \* number of timers armed so far (their arming order)
    alerts,              \* set of <<kind, identifier>>: Alert.alert shown
    userActs,            \* [snooze |-> Snooze taps so far, other |-> other user events]
    log,                 \* call log of the player-pool API (pool spec only)
    medications,         \* names of the medications saved
    lastCount,           \* history: per snoozeId, count of the entry scheduled last
    stops,               \* history: bag of the watchdogs whose poll called stop
                         \* (two-screen spec only)
    expansion            \* the add form submitted and the run of its schedule
                         \* expansion (expansion spec only)

vars == << scheduled, presented, notificationAlarms, activeSounds, sounds,
           tasks, watchdogs, clock, armed, alerts, userActs, log, medications,
           lastCount, stops, expansion >>

\* what only the harnesses of single components write
harness == << log, stops, expansion >>

-----------------------------------------------------------------------------
(* Bounds of the model *)

\* taps on Snooze
MaxSnoozeActs == 1
\* other user events: taps on Stop / Dismiss / the body, tray swipes
MaxOtherActs == 1
\* polls a home-screen watchdog issues before its 30 s ceiling (30000/300 in
\* the source; bounded here)
WatchdogPolls == 1

\* identifiers of the alerts of one medication with one time and duration 2:
\* `medication_<id>_0_<time>` and `medication_<id>_1_<time>`
Days == << "a", "b" >>
Ids == { Days[d] : d \in DOMAIN Days }
Screens == {"home", "add"}

NoHandle == 0
Undefined == -1          \* a payload field that is absent (JS undefined)
NoSnoozeId == << >>      \* payload.snoozeId absent

-----------------------------------------------------------------------------
(* Payloads *)

\* index.tsx:1194  `currentSnoozeCount >= 7`
MaxSnoozes == 7

\* index.tsx:1191  `originalData.snoozeCount || 0`
CurrentSnoozeCount(data) ==
    IF data.snoozeCount = Undefined \/ data.snoozeCount = 0 THEN 0 ELSE data.snoozeCount

\* index.tsx:1388-1413: the entry scheduleNotifications creates for one (day, time).
\* born is not payload: it is the place of a `seconds` trigger in the arming
\* order of the timers.
OriginalEntry(id, day) ==
    [ identifier         |-> id,
      medicationName     |-> "Aspirin",
      day                |-> day,
      trigger            |-> "date",
      categoryIdentifier |-> "MEDICATION_REMINDER",
      shouldPlayAlarm    |-> TRUE,
      isSnoozeWaiting    |-> FALSE,
      snoozeCount        |-> Undefined,
      snoozeId           |-> NoSnoozeId,
      born               |-> 0 ]

\* an entry of the snooze that does not carry the waiting flag
UnflaggedEntry(data, id, newSnoozeCount, snoozeId) ==
    [ data EXCEPT !.identifier         = id,
                  !.trigger            = "seconds",
                  !.categoryIdentifier = "MEDICATION_SNOOZED",
                  !.shouldPlayAlarm    = FALSE,
                  !.isSnoozeWaiting    = FALSE,
                  !.snoozeCount        = newSnoozeCount,
                  !.snoozeId           = snoozeId ]

\* index.tsx:1211-1232: the silent "snoozed" entry (same identifier)
WaitingEntry(data, id, newSnoozeCount, snoozeId) ==
    [ data EXCEPT !.identifier         = id,
                  !.trigger            = "seconds",
                  !.categoryIdentifier = "MEDICATION_SNOOZED",
                  !.shouldPlayAlarm    = FALSE,
                  !.isSnoozeWaiting    = TRUE,
                  !.snoozeCount        = newSnoozeCount,
                  !.snoozeId           = snoozeId ]

\* a restored entry that has the buttons of the alarm and keeps the payload
\* of the waiting entry
SilentAlarmEntry(data, id, newSnoozeCount, snoozeId) ==
    [ data EXCEPT !.identifier         = id,
                  !.trigger            = "seconds",
                  !.categoryIdentifier = "MEDICATION_REMINDER",
                  !.shouldPlayAlarm    = FALSE,
                  !.isSnoozeWaiting    = TRUE,
                  !.snoozeCount        = newSnoozeCount,
                  !.snoozeId           = snoozeId ]

\* index.tsx:1240-1261: the full alarm entry restored after the 2 minutes
FullAlarmEntry(data, id, newSnoozeCount, snoozeId) ==
    [ data EXCEPT !.identifier         = id,
                  !.trigger            = "seconds",
                  !.categoryIdentifier = "MEDICATION_REMINDER",
                  !.shouldPlayAlarm    = TRUE,
                  !.isSnoozeWaiting    = FALSE,
                  !.snoozeCount        = newSnoozeCount,
                  !.snoozeId           = snoozeId ]

\* placeholder payload of tasks that carry none
NoData == OriginalEntry("", 0)

-----------------------------------------------------------------------------
(* Alert Registry: the expo-notifications calls the engine uses *)

EntriesOf(set, id) == { e \in set : e.identifier = id }

\* a scheduler that keeps the entry already scheduled under the identifier
ScheduleBeside(set, entry) == set \cup {entry}

\* Notifications.scheduleNotificationAsync: an identifier already scheduled
\* is replaced
ScheduleNotification(set, entry) ==
    (set \ EntriesOf(set, entry.identifier)) \cup {entry}

\* Notifications.cancelScheduledNotificationAsync
CancelScheduledNotification(set, id) == set \ EntriesOf(set, id)

\* Notifications.dismissNotificationAsync
DismissNotification(set, id) == set \ EntriesOf(set, id)

-----------------------------------------------------------------------------
(* Tasks *)

\* kind: what the task is; pc: where it is suspended; data: the payload its
\* closure captured; n: a number it captured (newSnoozeCount, watchdog index,
\* day index); sid: snoozeId it captured; h: the sound it captured; todo: what
\* is left of a loop; born: for a timer, its place in the arming order
Task(kind, pc, scr, id) ==
    [ kind |-> kind, pc |-> pc, scr |-> scr, id |-> id, data |-> NoData,
      n |-> 0, sid |-> NoSnoozeId, h |-> NoHandle, todo |-> {}, born |-> 0 ]

Pending == BagToSet(tasks)
Add(bag, t) == bag (+) SetToBag({t})
Remove(bag, t) == bag (-) SetToBag({t})

-----------------------------------------------------------------------------
(* Timers.  The JavaScript timer queue fires timers in the order of their   *)
(* due times: a timer armed earlier with a delay that is not longer is due  *)
(* earlier.  Native calls (await) and OS events are not ordered by it.      *)

\* index.tsx:1124, add-medication.tsx:606  setTimeout(..., 60000)
AutoStopMs == 60000
\* index.tsx:1267  2 * 60 * 1000
SnoozeDelayMs == 120000
\* index.tsx:1004  setTimeout(..., 30000)
WatchdogCeilingMs == 30000
\* add-medication.tsx:96  setTimeout(..., 10000)
AddWatchdogCeilingMs == 10000

DelayOf(t) == IF t.kind = "autoStop" THEN AutoStopMs ELSE SnoozeDelayMs

CeilingOf(w) == IF w.scr = "home" THEN WatchdogCeilingMs ELSE AddWatchdogCeilingMs

PendingTimers ==
    { t \in Pending : t.kind = "autoStop" \/ (t.kind = "snoozeTimer" /\ t.pc = "timer") }

\* index.tsx:1231, 1260  trigger: { seconds: 1 }
TriggerMs == 1000

\* no timer that is due earlier is still pending
Due(born, delay) ==
    /\ \A x \in PendingTimers : ~ (x.born < born /\ DelayOf(x) <= delay)
    /\ \A e \in scheduled :
         ~ (e.trigger = "seconds" /\ e.born < born /\ TriggerMs <= delay)
    /\ \A w \in DOMAIN watchdogs :
         ~ (watchdogs[w].checking /\ watchdogs[w].born < born
                                  /\ CeilingOf(watchdogs[w]) <= delay)

-----------------------------------------------------------------------------
(* Alarm Player Pool.  The pool operations are written as functions on the    *)
(* record p = [alarms, active, sounds, tasks] so that handlers can call them  *)
(* inside one step.                                                           *)

Pool == [ alarms |-> notificationAlarms, active |-> activeSounds,
          sounds |-> sounds, tasks |-> tasks ]

\* a sound that was created with shouldPlay/isLooping and not stopped since
Live(h) == sounds[h].state = "playing"

\* index.tsx:1130-1158.  stopAsync() and unloadAsync() are issued without
\* await and the maps are updated in the same run.
StopHome(p, id) ==
    LET sound == p.alarms["home"][id] IN
    IF sound # NoHandle
    THEN [ p EXCEPT !.sounds[sound].state = "unloaded",
                    !.alarms["home"][id] = NoHandle,
                    !.active["home"]     = @ \ {sound} ]
    ELSE p

\* add-medication.tsx:617-633.  Only stopAsync() is issued in this run; the
\* unload and the map updates are in the promise callbacks.
StopAdd(p, id) ==
    LET sound == p.alarms["add"][id] IN
    IF sound # NoHandle
    THEN [ p EXCEPT !.tasks = Add(@, [ Task("teardown", "stopAsync", "add", id)
                                        EXCEPT !.h = sound ]) ]
    ELSE p

\* a stop that, finding no handle under the identifier, forgets every
\* active sound of the screen
StopOrForgetAll(p, scr, id) ==
    IF p.alarms[scr][id] # NoHandle
    THEN IF scr = "home" THEN StopHome(p, id) ELSE StopAdd(p, id)
    ELSE [ p EXCEPT !.active[scr] = {} ]

StopSpecificNotificationAlarm(p, scr, id) ==
    IF scr = "home" THEN StopHome(p, id) ELSE StopAdd(p, id)

\* index.tsx:1103-1112, add-medication.tsx:586-594: up to `await createAsync`
PlayNotificationAlarm(p, scr, id) ==
    LET q == StopSpecificNotificationAlarm(p, scr, id) IN
    [ q EXCEPT !.tasks = Add(@, Task("play", "createAsync", scr, id)) ]

SetPool(p) ==
    /\ notificationAlarms' = p.alarms
    /\ activeSounds' = p.active
    /\ sounds' = p.sounds
    /\ tasks' = p.tasks

\* index.tsx:1113-1124, add-medication.tsx:595-606: createAsync resolved: the
\* new sound is registered and the 60 s auto-stop timer is armed
\* (h of the timer: the sound in the scope of its closure; the callback does
\* not use it)
CreateResolved(t) ==
    /\ t \in Pending /\ t.kind = "play" /\ t.pc = "createAsync"
    /\ LET sound == Len(sounds) + 1 IN
       /\ sounds' = Append(sounds, [ state |-> "playing", scr |-> t.scr, id |-> t.id ])
       /\ notificationAlarms' = [ notificationAlarms EXCEPT ![t.scr][t.id] = sound ]
       /\ activeSounds' = [ activeSounds EXCEPT ![t.scr] = @ \cup {sound} ]
    /\ tasks' = Add(Remove(tasks, t), [ Task("autoStop", "timer", t.scr, t.id)
                                        EXCEPT !.born = armed + 1,
                                               !.h = Len(sounds) + 1 ])
    /\ armed' = armed + 1
    /\ UNCHANGED << scheduled, presented, watchdogs, clock, alerts,
                    userActs, medications, lastCount >>

\* index.tsx:1122-1124, add-medication.tsx:604-606: the auto-stop timer fires
AutoStopFired(t) ==
    /\ t \in Pending /\ t.kind = "autoStop"
    /\ Due(t.born, AutoStopMs)
    /\ SetPool(StopSpecificNotificationAlarm(
                  [ Pool EXCEPT !.tasks = Remove(@, t) ], t.scr, t.id))
    /\ UNCHANGED << scheduled, presented, watchdogs, clock, armed, alerts,
                    userActs, medications, lastCount >>

\* a teardown that ends with stopAsync() and never unloads
StopAsyncOnly(t) ==
    /\ t \in Pending /\ t.kind = "teardown" /\ t.pc = "stopAsync"
    /\ sounds' = IF sounds[t.h].state = "unloaded" THEN sounds
                 ELSE [ sounds EXCEPT ![t.h].state = "stopped" ]
    /\ tasks' = Remove(tasks, t)
    /\ UNCHANGED << scheduled, presented, notificationAlarms, activeSounds,
                    watchdogs, clock, armed, alerts, userActs, medications,
                    lastCount >>

\* add-medication.tsx:622-623: stopAsync() settled.  It rejects ("stop err")
\* on a sound that is no longer loaded; otherwise unloadAsync() is issued.
StopAsyncResolved(t) ==
    /\ t \in Pending /\ t.kind = "teardown" /\ t.pc = "stopAsync"
    /\ IF sounds[t.h].state = "unloaded"
       THEN /\ tasks' = Remove(tasks, t)
            /\ UNCHANGED sounds
       ELSE /\ sounds' = [ sounds EXCEPT ![t.h].state = "stopped" ]
            /\ tasks' = Add(Remove(tasks, t), [ t EXCEPT !.pc = "unloadAsync" ])
    /\ UNCHANGED << scheduled, presented, notificationAlarms, activeSounds,
                    watchdogs, clock, armed, alerts, userActs, medications,
                    lastCount >>

\* add-medication.tsx:623-627: unloadAsync() resolved: the entry under the
\* identifier and the sound are removed from the maps
UnloadAsyncResolved(t) ==
    /\ t \in Pending /\ t.kind = "teardown" /\ t.pc = "unloadAsync"
    /\ sounds' = [ sounds EXCEPT ![t.h].state = "unloaded" ]
    /\ notificationAlarms' = [ notificationAlarms EXCEPT !["add"][t.id] = NoHandle ]
    /\ activeSounds' = [ activeSounds EXCEPT !["add"] = @ \ {t.h} ]
    /\ tasks' = Remove(tasks, t)
    /\ UNCHANGED << scheduled, presented, watchdogs, clock, armed, alerts,
                    userActs, medications, lastCount >>

-----------------------------------------------------------------------------
(* Dismissal Watchdog *)

\* add-medication.tsx:86-91: the four setTimeout(checkDismissal, ...) timers
AddWatchdogChecks == 4

\* index.tsx:978-1004 (setInterval every 300 ms, cleared after 30 s) and
\* add-medication.tsx:85-95 (four timers, cleared after 10 s).
\* checking: isCheckingDismissal / the timers are still armed;
\* ticks: polls still to be issued before the ceiling
NewWatchdog(scr, id) ==
    [ scr |-> scr, id |-> id, checking |-> TRUE, born |-> armed + 1,
      ticks |-> IF scr = "home" THEN WatchdogPolls ELSE AddWatchdogChecks ]

\* index.tsx:979-985, add-medication.tsx:62-63: one timer tick issues
\* getPresentedNotificationsAsync()
WatchdogTick(w) ==
    /\ w \in DOMAIN watchdogs
    /\ watchdogs[w].checking /\ watchdogs[w].ticks > 0
    /\ watchdogs' = [ watchdogs EXCEPT ![w].ticks = @ - 1 ]
    /\ tasks' = Add(tasks, [ Task("watchdog", "getPresented", watchdogs[w].scr,
                                  watchdogs[w].id) EXCEPT !.n = w ])
    /\ UNCHANGED << scheduled, presented, notificationAlarms, activeSounds,
                    sounds, clock, armed, alerts, userActs, medications,
                    lastCount >>

\* index.tsx:1001-1004, add-medication.tsx:93-95: the ceiling timer
WatchdogCeiling(w) ==
    /\ w \in DOMAIN watchdogs
    /\ watchdogs[w].checking /\ watchdogs[w].ticks = 0
    /\ Due(watchdogs[w].born, CeilingOf(watchdogs[w]))
    /\ watchdogs' = [ watchdogs EXCEPT ![w].checking = FALSE ]
    /\ UNCHANGED << scheduled, presented, notificationAlarms, activeSounds,
                    sounds, tasks, clock, armed, alerts, userActs, medications,
                    lastCount >>

IsStillPresented(id) == EntriesOf(presented, id) # {}

\* a poll whose result is not looked at
PollIgnored(t) ==
    /\ t \in Pending /\ t.kind = "watchdog" /\ t.pc = "getPresented"
    /\ tasks' = Remove(tasks, t)
    /\ UNCHANGED << scheduled, presented, notificationAlarms, activeSounds,
                    sounds, watchdogs, clock, armed, alerts, userActs,
                    medications, lastCount >>

\* a poll that treats the disappearance like a Stop of the user: it also
\* cancels what is scheduled under the identifier
PollCancels(t) ==
    /\ t \in Pending /\ t.kind = "watchdog" /\ t.pc = "getPresented"
    /\ IF IsStillPresented(t.id)
       THEN /\ tasks' = Remove(tasks, t)
            /\ UNCHANGED << notificationAlarms, activeSounds, sounds, watchdogs,
                            scheduled >>
       ELSE /\ watchdogs' = [ watchdogs EXCEPT ![t.n].checking = FALSE,
                                               ![t.n].ticks = 0 ]
            /\ scheduled' = CancelScheduledNotification(scheduled, t.id)
            /\ SetPool(StopSpecificNotificationAlarm(
                          [ Pool EXCEPT !.tasks = Remove(@, t) ], t.scr, t.id))
    /\ UNCHANGED << presented, clock, armed, alerts, userActs, medications,
                    lastCount >>

\* index.tsx:985-997: the .then() of one poll of the home screen
\* add-medication.tsx:63-82: the .then() of one poll of the add screen (it
\* has no flag and clears no timer)
PollResolved(t) ==
    /\ t \in Pending /\ t.kind = "watchdog" /\ t.pc = "getPresented"
    /\ IF IsStillPresented(t.id)
       THEN /\ tasks' = Remove(tasks, t)
            /\ UNCHANGED << notificationAlarms, activeSounds, sounds, watchdogs >>
       ELSE /\ watchdogs' = IF t.scr = "home"
                            THEN [ watchdogs EXCEPT ![t.n].checking = FALSE,
                                                    ![t.n].ticks = 0 ]
                            ELSE watchdogs
            /\ SetPool(StopSpecificNotificationAlarm(
                          [ Pool EXCEPT !.tasks = Remove(@, t) ], t.scr, t.id))
    /\ UNCHANGED << scheduled, presented, clock, armed, alerts, userActs,
                    medications, lastCount >>

-----------------------------------------------------------------------------
(* Delivery (index.tsx:963-1006) *)

\* index.tsx:1375-1377, 1409-1412: the entries of the expansion are one day
\* apart.  The entry of a day fires after those of the days before it, and
\* after everything the days before have started has run: the timers (two
\* minutes at most), the pending native calls and the `seconds: 1` entries.
FireInstantReached(e) ==
    /\ \A x \in scheduled : x.trigger = "date" => x.day >= e.day
    /\ e.day > 1 => /\ tasks = EmptyBag
                    /\ \A w \in DOMAIN watchdogs : ~ watchdogs[w].checking
                    /\ \A x \in scheduled : x.trigger = "date"

\* a delivery that starts the player whatever the payload says
DeliverLoud(e) ==
    /\ e \in scheduled
    /\ e.trigger = "date" => FireInstantReached(e)
    /\ scheduled' = scheduled \ {e}
    /\ presented' = ScheduleNotification(presented, e)
    /\ SetPool(PlayNotificationAlarm(Pool, "home", e.identifier))
    /\ watchdogs' = Append(watchdogs, NewWatchdog("home", e.identifier))
    /\ armed' = armed + 1
    /\ UNCHANGED << clock, alerts, userActs, medications, lastCount >>

\* The OS fires a scheduled entry while the app is in the foreground: the
\* entry leaves the scheduler and is presented; notificationListener starts
\* the player if payload.shouldPlayAlarm; dismissalListener arms a watchdog
\* (every entry of the engine has type 'medication_reminder').
Deliver(e) ==
    /\ e \in scheduled
    /\ e.trigger = "date" => FireInstantReached(e)
    /\ scheduled' = scheduled \ {e}
    /\ presented' = ScheduleNotification(presented, e)
    /\ SetPool(IF e.shouldPlayAlarm
               THEN PlayNotificationAlarm(Pool, "home", e.identifier)
               ELSE Pool)
    /\ watchdogs' = Append(watchdogs, NewWatchdog("home", e.identifier))
    /\ armed' = armed + 1
    /\ UNCHANGED << clock, alerts, userActs, medications, lastCount >>

\* the user swipes the notification out of the tray: no callback
Swipe(e) ==
    /\ e \in presented
    /\ userActs' = [ userActs EXCEPT !.other = @ + 1 ]
    /\ presented' = presented \ {e}
    /\ UNCHANGED << scheduled, notificationAlarms, activeSounds, sounds, tasks,
                    watchdogs, clock, armed, alerts, medications, lastCount >>

-----------------------------------------------------------------------------
(* Action Dispatcher: responseListener (index.tsx:1009-1094) *)

Notice(kind, id) == alerts \cup { << kind, id >> }

\* index.tsx:1160-1188: the buttons setupNotificationCategories registers
CategoryActions(categoryIdentifier) ==
    IF categoryIdentifier = "MEDICATION_REMINDER" THEN {"STOP_ACTION", "SNOOZE_ACTION"}
    ELSE IF categoryIdentifier = "MEDICATION_SNOOZED" THEN {"DISMISS_ACTION"}
    ELSE {}

\* a handler that dismisses first and leaves the player for later
DismissBeforeStop(e, action) ==
    /\ e \in presented
    /\ \/ action = "STOP_ACTION" /\ e.categoryIdentifier = "MEDICATION_REMINDER"
       \/ action = "DISMISS_ACTION" /\ e.categoryIdentifier = "MEDICATION_SNOOZED"
    /\ userActs' = [ userActs EXCEPT !.other = @ + 1 ]
    /\ tasks' = Add(tasks, [ Task(action, "dismiss", "home", e.identifier)
                             EXCEPT !.data = e ])
    /\ UNCHANGED << scheduled, presented, notificationAlarms, activeSounds,
                    sounds, watchdogs, clock, armed, alerts, medications,
                    lastCount >>

\* index.tsx:1014-1020 and 1047-1053: STOP_ACTION / DISMISS_ACTION up to
\* `await dismissNotificationAsync`.  The OS offers Stop on the category
\* MEDICATION_REMINDER and Dismiss on MEDICATION_SNOOZED.
ResponseStopOrDismiss(e, action) ==
    /\ e \in presented
    /\ \/ action = "STOP_ACTION" /\ e.categoryIdentifier = "MEDICATION_REMINDER"
       \/ action = "DISMISS_ACTION" /\ e.categoryIdentifier = "MEDICATION_SNOOZED"
    /\ userActs' = [ userActs EXCEPT !.other = @ + 1 ]
    /\ SetPool(LET p == StopSpecificNotificationAlarm(Pool, "home", e.identifier) IN
               [ p EXCEPT !.tasks = Add(@, [ Task(action, "dismiss", "home", e.identifier)
                                             EXCEPT !.data = e ]) ])
    /\ UNCHANGED << scheduled, presented, watchdogs, clock, armed, alerts,
                    medications, lastCount >>

ResponseStop(e) == ResponseStopOrDismiss(e, "STOP_ACTION")
ResponseDismiss(e) == ResponseStopOrDismiss(e, "DISMISS_ACTION")

Confirmation(action) == IF action = "STOP_ACTION" THEN "stopped" ELSE "dismissed"

\* index.tsx:1020-1024 and 1053-1057: the dismiss resolved; with a snoozeId
\* in the payload getAllScheduledNotificationsAsync is awaited, without one
\* the confirmation is shown
StopDismissed(t) ==
    /\ t \in Pending /\ t.kind \in {"STOP_ACTION", "DISMISS_ACTION"} /\ t.pc = "dismiss"
    /\ presented' = DismissNotification(presented, t.id)
    /\ IF t.data.snoozeId # NoSnoozeId
       THEN /\ tasks' = Add(Remove(tasks, t), [ t EXCEPT !.pc = "getAllScheduled" ])
            /\ UNCHANGED alerts
       ELSE /\ tasks' = Remove(tasks, t)
            /\ alerts' = Notice(Confirmation(t.kind), t.id)
    /\ UNCHANGED << scheduled, notificationAlarms, activeSounds, sounds,
                    watchdogs, clock, armed, userActs, medications, lastCount >>

\* a loop over the scheduled entries that tests nothing
AnyScheduledEntry(scheduledNotif, data) == TRUE

\* index.tsx:1026, 1059: the test of the loop over the scheduled entries
SharesSnoozeId(scheduledNotif, data) == scheduledNotif.snoozeId = data.snoozeId

\* index.tsx:1024-1027 and 1057-1060: the list resolved; the loop runs to the
\* first `await cancelScheduledNotificationAsync`
StopListed(t) ==
    /\ t \in Pending /\ t.kind \in {"STOP_ACTION", "DISMISS_ACTION"}
    /\ t.pc = "getAllScheduled"
    /\ LET matching == { n.identifier : n \in { n \in scheduled : SharesSnoozeId(n, t.data) } } IN
       IF matching # {}
       THEN /\ tasks' = Add(Remove(tasks, t), [ t EXCEPT !.pc = "cancel", !.todo = matching ])
            /\ UNCHANGED alerts
       ELSE /\ tasks' = Remove(tasks, t)
            /\ alerts' = Notice(Confirmation(t.kind), t.id)
    /\ UNCHANGED << scheduled, presented, notificationAlarms, activeSounds,
                    sounds, watchdogs, clock, armed, userActs, medications,
                    lastCount >>

\* index.tsx:1027-1036 and 1060-1069: one cancel resolved; the loop goes on
\* to the next matching entry or the confirmation is shown
StopCancelled(t) ==
    /\ t \in Pending /\ t.kind \in {"STOP_ACTION", "DISMISS_ACTION"} /\ t.pc = "cancel"
    /\ \E j \in t.todo :
         /\ scheduled' = CancelScheduledNotification(scheduled, j)
         /\ IF t.todo # {j}
            THEN /\ tasks' = Add(Remove(tasks, t), [ t EXCEPT !.todo = @ \ {j} ])
                 /\ UNCHANGED alerts
            ELSE /\ tasks' = Remove(tasks, t)
                 /\ alerts' = Notice(Confirmation(t.kind), t.id)
    /\ UNCHANGED << presented, notificationAlarms, activeSounds, sounds,
                    watchdogs, clock, armed, userActs, medications, lastCount >>

\* a tap that also empties the scheduler
TapClearsSchedule(e) ==
    /\ e \in presented
    /\ userActs' = [ userActs EXCEPT !.other = @ + 1 ]
    /\ SetPool(StopSpecificNotificationAlarm(Pool, "home", e.identifier))
    /\ alerts' = Notice(IF e.isSnoozeWaiting THEN "snoozedInfo" ELSE "reminder",
                         e.identifier)
    /\ scheduled' = {}
    /\ UNCHANGED << presented, watchdogs, clock, armed, medications, lastCount >>

\* index.tsx:1071-1092: a tap on the body of the notification
ResponseTap(e) ==
    /\ e \in presented
    /\ userActs' = [ userActs EXCEPT !.other = @ + 1 ]
    /\ SetPool(StopSpecificNotificationAlarm(Pool, "home", e.identifier))
    /\ alerts' = Notice(IF e.isSnoozeWaiting THEN "snoozedInfo" ELSE "reminder",
                         e.identifier)
    /\ UNCHANGED << scheduled, presented, watchdogs, clock, armed, medications,
                    lastCount >>

-----------------------------------------------------------------------------
(* Snooze: scheduleSnoozeNotification (index.tsx:1190-1272) *)

\* a cap that is reached one Snooze later
MaxSnoozesExceeded(currentSnoozeCount) == currentSnoozeCount > MaxSnoozes

\* index.tsx:1194
MaxSnoozesReached(currentSnoozeCount) == currentSnoozeCount >= MaxSnoozes

\* index.tsx:1203
NewSnoozeCount(data) == CurrentSnoozeCount(data) + 1

\* Date.now(): a later millisecond than the previous call, or the same one
\* when the handler that made that call has not passed its first await yet
Now ==
    {clock + 1} \cup
    { clock : t \in { t \in Pending : /\ t.kind = "SNOOZE_ACTION" /\ t.pc = "dismiss"
                                      /\ t.sid = << t.data.medicationName, clock >> } }

\* index.tsx:1204  originalData.snoozeId || `snooze_${medicationName}_${Date.now()}`
SnoozeIdFor(data, now) ==
    IF data.snoozeId # NoSnoozeId THEN data.snoozeId
    ELSE << data.medicationName, now >>

\* index.tsx:1038-1045, 1190-1208: SNOOZE_ACTION up to the first await of
\* scheduleSnoozeNotification, or to its early return at the cap
ResponseSnooze(e) ==
    /\ e \in presented
    /\ e.categoryIdentifier = "MEDICATION_REMINDER"
    /\ userActs' = [ userActs EXCEPT !.snooze = @ + 1 ]
    /\ LET p == StopSpecificNotificationAlarm(Pool, "home", e.identifier) IN
       IF MaxSnoozesReached(CurrentSnoozeCount(e))
       THEN /\ SetPool(p)
            /\ alerts' = Notice("maxSnoozes", e.identifier)
            /\ UNCHANGED clock
       ELSE /\ \E now \in (IF e.snoozeId # NoSnoozeId THEN {clock} ELSE Now) :
                 /\ SetPool([ p EXCEPT !.tasks =
                        Add(@, [ Task("SNOOZE_ACTION", "dismiss", "home", e.identifier)
                                 EXCEPT !.data = e,
                                        !.n = NewSnoozeCount(e),
                                        !.sid = SnoozeIdFor(e, now) ]) ])
                 /\ clock' = now
            /\ UNCHANGED alerts
    /\ UNCHANGED << scheduled, presented, watchdogs, armed, medications,
                    lastCount >>

\* index.tsx:1208, 1237: a dismissNotificationAsync of the snooze flow
\* resolved; the schedule call that follows it is issued
SnoozeDismissed(t) ==
    /\ t \in Pending /\ t.kind \in {"SNOOZE_ACTION", "snoozeTimer"} /\ t.pc = "dismiss"
    /\ presented' = DismissNotification(presented, t.id)
    /\ tasks' = Add(Remove(tasks, t), [ t EXCEPT !.pc = "schedule" ])
    /\ UNCHANGED << scheduled, notificationAlarms, activeSounds, sounds,
                    watchdogs, clock, armed, alerts, userActs, medications,
                    lastCount >>

\* history of the counts scheduled per snoozeId
Recorded(entry) ==
    [ s \in DOMAIN lastCount \cup {entry.snoozeId} |->
        IF s = entry.snoozeId THEN entry.snoozeCount ELSE lastCount[s] ]

\* index.tsx:1211-1235, 1267: the waiting entry is scheduled and the
\* 2-minute timer is armed
SnoozeScheduled(t) ==
    /\ t \in Pending /\ t.kind = "SNOOZE_ACTION" /\ t.pc = "schedule"
    /\ LET entry == [ WaitingEntry(t.data, t.id, t.n, t.sid) EXCEPT !.born = armed + 1 ] IN
       /\ scheduled' = ScheduleNotification(scheduled, entry)
       /\ lastCount' = Recorded(entry)
    /\ tasks' = Add(Remove(tasks, t), [ t EXCEPT !.kind = "snoozeTimer", !.pc = "timer",
                                                 !.born = armed + 2 ])
    /\ armed' = armed + 2
    /\ UNCHANGED << presented, notificationAlarms, activeSounds, sounds,
                    watchdogs, clock, alerts, userActs, medications >>

\* index.tsx:1235-1237: the 2-minute timer fires
SnoozeTimerFired(t) ==
    /\ t \in Pending /\ t.kind = "snoozeTimer" /\ t.pc = "timer"
    /\ Due(t.born, SnoozeDelayMs)
    /\ tasks' = Add(Remove(tasks, t), [ t EXCEPT !.pc = "dismiss" ])
    /\ UNCHANGED << scheduled, presented, notificationAlarms, activeSounds,
                    sounds, watchdogs, clock, armed, alerts, userActs,
                    medications, lastCount >>

\* index.tsx:1240-1263: the full alarm entry is scheduled and
\* playNotificationAlarm is called
SnoozeRealarmScheduled(t) ==
    /\ t \in Pending /\ t.kind = "snoozeTimer" /\ t.pc = "schedule"
    /\ LET entry == [ FullAlarmEntry(t.data, t.id, t.n, t.sid) EXCEPT !.born = armed + 1 ] IN
       /\ scheduled' = ScheduleNotification(scheduled, entry)
       /\ lastCount' = Recorded(entry)
    /\ armed' = armed + 1
    /\ SetPool(PlayNotificationAlarm([ Pool EXCEPT !.tasks = Remove(@, t) ], "home", t.id))
    /\ UNCHANGED << presented, watchdogs, clock, alerts, userActs, medications >>

-----------------------------------------------------------------------------
(* Schedule expansion: addMedication / scheduleNotifications                  *)
(* (index.tsx:1359-1458) for the medication "Aspirin" with one time and a     *)
(* duration of Len(Days) days, every instant in the future.                   *)

\* index.tsx:1419-1441 and the first pass of the loop at 1362-1388
AddMedication ==
    /\ "Aspirin" \notin medications
    /\ medications' = medications \cup {"Aspirin"}
    /\ tasks' = Add(tasks, [ Task("scheduleNotifications", "schedule", "home", Days[1])
                             EXCEPT !.n = 1 ])
    /\ UNCHANGED << scheduled, presented, notificationAlarms, activeSounds,
                    sounds, watchdogs, clock, armed, alerts, userActs, lastCount
                    >>

\* index.tsx:1362-1416: one scheduleNotificationAsync of the loop resolved
ExpansionScheduled(t) ==
    /\ t \in Pending /\ t.kind = "scheduleNotifications" /\ t.pc = "schedule"
    /\ scheduled' = ScheduleNotification(scheduled, OriginalEntry(t.id, t.n))
    /\ tasks' = IF t.n < Len(Days)
                THEN Add(Remove(tasks, t), [ t EXCEPT !.n = @ + 1, !.id = Days[t.n + 1] ])
                ELSE Remove(tasks, t)
    /\ UNCHANGED << presented, notificationAlarms, activeSounds, sounds,
                    watchdogs, clock, armed, alerts, userActs, medications,
                    lastCount >>

-----------------------------------------------------------------------------
(* The home screen (component Home of index.tsx) *)

\* no form has been submitted
NoExpansion == [ pc |-> "idle" ]

Init ==
    /\ scheduled = {}
    /\ presented = {}
    /\ notificationAlarms = [ s \in Screens |-> [ i \in Ids |-> NoHandle ] ]
    /\ activeSounds = [ s \in Screens |-> {} ]
    /\ sounds = << >>
    /\ tasks = EmptyBag
    /\ watchdogs = << >>
    /\ clock = 0
    /\ armed = 0
    /\ alerts = {}
    /\ userActs = [ snooze |-> 0, other |-> 0 ]
    /\ log = << >>
    /\ medications = {}
    /\ lastCount = << >>
    /\ stops = EmptyBag
    /\ expansion = NoExpansion

\* bounds on the user
MaySnooze == userActs.snooze < MaxSnoozeActs
MayAct == userActs.other < MaxOtherActs

\* a poll is answered before the next tick of its watchdog
NoPollInFlight(w) == \A t \in Pending : t.kind = "watchdog" => t.n # w

\* the player and the watchdogs: continuations and timers
Watchdog ==
    \/ \E w \in DOMAIN watchdogs : NoPollInFlight(w) /\ WatchdogTick(w) /\ UNCHANGED harness
    \/ \E w \in DOMAIN watchdogs : WatchdogCeiling(w) /\ UNCHANGED harness
    \/ \E t \in Pending : PollResolved(t) /\ UNCHANGED harness

Player ==
    \/ \E t \in Pending : CreateResolved(t) /\ UNCHANGED harness
    \/ \E t \in Pending : AutoStopFired(t) /\ UNCHANGED harness

Expansion == \E t \in Pending : ExpansionScheduled(t) /\ UNCHANGED harness

Background == Expansion \/ Player \/ Watchdog

\* the continuations of scheduleSnoozeNotification and its timer
SnoozeFlow ==
    \/ \E t \in Pending : SnoozeDismissed(t) /\ UNCHANGED harness
    \/ \E t \in Pending : SnoozeScheduled(t) /\ UNCHANGED harness
    \/ \E t \in Pending : SnoozeTimerFired(t) /\ UNCHANGED harness
    \/ \E t \in Pending : SnoozeRealarmScheduled(t) /\ UNCHANGED harness

\* the continuations of STOP_ACTION and DISMISS_ACTION
Acknowledgement ==
    \/ \E t \in Pending : StopDismissed(t) /\ UNCHANGED harness
    \/ \E t \in Pending : StopListed(t) /\ UNCHANGED harness
    \/ \E t \in Pending : StopCancelled(t) /\ UNCHANGED harness

System == Background \/ SnoozeFlow \/ Acknowledgement

Next ==
    \/ AddMedication /\ UNCHANGED harness
    \/ \E e \in scheduled : Deliver(e) /\ UNCHANGED harness
    \/ \E e \in presented : MayAct /\ Swipe(e) /\ UNCHANGED harness
    \/ \E e \in presented : MayAct /\ ResponseStop(e) /\ UNCHANGED harness
    \/ \E e \in presented : MayAct /\ ResponseDismiss(e) /\ UNCHANGED harness
    \/ \E e \in presented : MaySnooze /\ ResponseSnooze(e) /\ UNCHANGED harness
    \/ \E e \in presented : MayAct /\ ResponseTap(e) /\ UNCHANGED harness
    \/ System

Spec == Init /\ [][Next]_vars

\* The first day of the schedule: the alert of the second day is not due
\* yet.  The event loop runs every continuation whose native call has
\* settled and every timer that is due, and the OS fires every entry whose
\* fire instant is reached.
Delivery == \E e \in scheduled : e.day <= 1 /\ Deliver(e) /\ UNCHANGED harness

NextFirstDay ==
    \/ AddMedication /\ UNCHANGED harness
    \/ Delivery
    \/ \E e \in presented : MayAct /\ Swipe(e) /\ UNCHANGED harness
    \/ \E e \in presented : MayAct /\ ResponseStop(e) /\ UNCHANGED harness
    \/ \E e \in presented : MayAct /\ ResponseDismiss(e) /\ UNCHANGED harness
    \/ \E e \in presented : MaySnooze /\ ResponseSnooze(e) /\ UNCHANGED harness
    \/ \E e \in presented : MayAct /\ ResponseTap(e) /\ UNCHANGED harness
    \/ System

FairSpec == Init /\ [][NextFirstDay]_vars /\ WF_vars(System) /\ WF_vars(Delivery)

\* No response of the user: alerts are delivered and swiped away.  Only the
\* polling of the watchdogs is assumed to go on.
MaxSwipes == 2

NextWatch ==
    \/ AddMedication /\ UNCHANGED harness
    \/ \E e \in scheduled : Deliver(e) /\ UNCHANGED harness
    \/ \E e \in presented : userActs.other < MaxSwipes /\ Swipe(e) /\ UNCHANGED harness
    \/ Background

SpecWatch == Init /\ [][NextWatch]_vars /\ WF_vars(Watchdog)

\* Snooze tapped again and again on the alert of the first day, each tap
\* after the handlers of the tap before it have run
MaxChainSnoozes == 8

\* the polls of the watchdogs armed so far have been answered
Polled ==
    \A w \in DOMAIN watchdogs :
        watchdogs[w].checking => watchdogs[w].ticks = 0 /\ NoPollInFlight(w)

\* only auto-stop timers are pending
Settled == Polled /\ \A t \in Pending : t.kind = "autoStop"

NextChain ==
    \/ AddMedication /\ UNCHANGED harness
    \/ \E e \in scheduled : Polled /\ e.day <= 1 /\ Deliver(e) /\ UNCHANGED harness
    \/ \E e \in presented : /\ userActs.snooze < MaxChainSnoozes
                              /\ Settled
                              /\ ResponseSnooze(e) /\ UNCHANGED harness
    \/ Expansion
    \/ Polled /\ Player
    \/ Watchdog
    \/ Polled /\ SnoozeFlow

SpecChain == Init /\ [][NextChain]_vars

\* Snooze tapped on the alert of the first day while re-alarm timers of
\* earlier taps may be pending or running, and tapped twice on the same
\* presented entry (the second tap arrives before the first has dismissed it)
MaxTapSnoozes == 3

TappedAgain(t, e) == t.kind = "SNOOZE_ACTION" /\ t.pc = "dismiss" /\ t.data = e

\* no handler is suspended in a native call: only timers are pending
Idle ==
    /\ Polled
    /\ \A t \in Pending : t.kind = "autoStop" \/ (t.kind = "snoozeTimer" /\ t.pc = "timer")

MayTap(e) ==
    /\ Polled
    /\ \A t \in Pending : \/ t.kind = "autoStop"
                          \/ t.kind = "snoozeTimer" /\ t.pc = "timer"
                          \/ TappedAgain(t, e)

\* a timer fires when the handlers before it have run
NextTaps ==
    \/ AddMedication /\ UNCHANGED harness
    \/ \E e \in scheduled : Polled /\ e.day <= 1 /\ Deliver(e) /\ UNCHANGED harness
    \/ \E e \in presented : /\ userActs.snooze < MaxTapSnoozes
                              /\ MayTap(e)
                              /\ ResponseSnooze(e) /\ UNCHANGED harness
    \/ Expansion
    \/ \E t \in Pending : Polled /\ CreateResolved(t) /\ UNCHANGED harness
    \/ \E t \in Pending : Idle /\ AutoStopFired(t) /\ UNCHANGED harness
    \/ \E t \in Pending : Polled /\ SnoozeDismissed(t) /\ UNCHANGED harness
    \/ \E t \in Pending : Polled /\ SnoozeScheduled(t) /\ UNCHANGED harness
    \/ \E t \in Pending : Idle /\ SnoozeTimerFired(t) /\ UNCHANGED harness
    \/ \E t \in Pending : Polled /\ SnoozeRealarmScheduled(t) /\ UNCHANGED harness
    \/ Watchdog

SpecTaps == Init /\ [][NextTaps]_vars

-----------------------------------------------------------------------------
(* The Alarm Player Pool on its own: start(id) and stop(id) of either screen  *)
(* called in any order, as their callers do (index.tsx:966, 989, 1018, 1042,  *)
(* 1051, 1075, 1123, 1263; add-medication.tsx:70, 605, 746, 751)              *)

\* calls of start / stop in one behaviour
MaxPoolCalls == 3

Creating(scr, id) ==
    \E t \in Pending : t.kind = "play" /\ t.scr = scr /\ t.id = id

TearingDown(scr, id) ==
    \E t \in Pending : t.kind = "teardown" /\ t.scr = scr /\ t.id = id

\* the call as the log keeps it; busy: a start(id) was suspended in
\* createAsync when the call was made; down: a teardown of the identifier
\* was in flight; had: the handle registered under the identifier
Call(op, scr, id) ==
    [ op |-> op, scr |-> scr, id |-> id, busy |-> Creating(scr, id),
      down |-> TearingDown(scr, id), had |-> notificationAlarms[scr][id] ]

\* index.tsx:1103-1112, add-medication.tsx:586-594
PoolStart(scr, id) ==
    /\ Len(log) < MaxPoolCalls
    /\ SetPool(PlayNotificationAlarm(Pool, scr, id))
    /\ log' = Append(log, Call("start", scr, id))
    /\ UNCHANGED << stops, expansion >>
    /\ UNCHANGED << scheduled, presented, watchdogs, clock, armed, alerts,
                    userActs, medications, lastCount >>

\* index.tsx:1130-1158, add-medication.tsx:617-633
PoolStop(scr, id) ==
    /\ Len(log) < MaxPoolCalls
    /\ SetPool(StopSpecificNotificationAlarm(Pool, scr, id))
    /\ log' = Append(log, Call("stop", scr, id))
    /\ UNCHANGED << stops, expansion >>
    /\ UNCHANGED << scheduled, presented, watchdogs, clock, armed, alerts,
                    userActs, medications, lastCount >>

NextPool ==
    \/ \E scr \in Screens, id \in Ids : PoolStart(scr, id)
    \/ \E scr \in Screens, id \in Ids : PoolStop(scr, id)
    \/ \E t \in Pending : CreateResolved(t) /\ UNCHANGED harness
    \/ \E t \in Pending : AutoStopFired(t) /\ UNCHANGED harness
    \/ \E t \in Pending : StopAsyncResolved(t) /\ UNCHANGED harness
    \/ \E t \in Pending : UnloadAsyncResolved(t) /\ UNCHANGED harness

SpecPool == Init /\ [][NextPool]_vars

-----------------------------------------------------------------------------
(* Both screens mounted (the tabs of the app): a received notification runs   *)
(* notificationListener and dismissalListener of Home and dismissalListener   *)
(* of AddMedication (add-medication.tsx:56-98).  The user only swipes.  A     *)
(* poll may still be in flight when the next tick of its watchdog comes.      *)

DeliverBoth(e) ==
    /\ e \in scheduled
    /\ e.trigger = "date" => FireInstantReached(e)
    /\ scheduled' = scheduled \ {e}
    /\ presented' = ScheduleNotification(presented, e)
    /\ SetPool(IF e.shouldPlayAlarm
               THEN PlayNotificationAlarm(Pool, "home", e.identifier)
               ELSE Pool)
    /\ watchdogs' = watchdogs \o
                      << NewWatchdog("home", e.identifier),
                         [ NewWatchdog("add", e.identifier) EXCEPT !.born = armed + 2 ] >>
    /\ armed' = armed + 2
    /\ UNCHANGED << clock, alerts, userActs, medications, lastCount >>

\* the watchdog t.n calls stop once more if its poll finds the alert absent
Counted(t) ==
    stops' = IF IsStillPresented(t.id) THEN stops ELSE stops (+) SetToBag({t.n})

Polling ==
    \/ \E w \in DOMAIN watchdogs : WatchdogTick(w) /\ UNCHANGED harness
    \/ \E w \in DOMAIN watchdogs : WatchdogCeiling(w) /\ UNCHANGED harness
    \/ \E t \in Pending : /\ PollResolved(t) /\ Counted(t)
                           /\ UNCHANGED << log, expansion >>

NextScreens ==
    \/ AddMedication /\ UNCHANGED harness
    \/ \E e \in scheduled : DeliverBoth(e) /\ UNCHANGED harness
    \/ \E e \in presented : userActs.other < MaxSwipes /\ Swipe(e) /\ UNCHANGED harness
    \/ Expansion
    \/ Player
    \/ Polling

SpecScreens == Init /\ [][NextScreens]_vars

-----------------------------------------------------------------------------
(* The add form and the schedule expansion with the inputs of the form:      *)
(* addMedication and scheduleNotifications of Home (index.tsx:1359-1458) and *)
(* of AddMedication (add-medication.tsx:515-573, 755-797).  A time string is *)
(* the sequence of its characters; an instant is a number of minutes since   *)
(* the local midnight of the day of submission.                              *)

\* entries of the times list of one form
MaxTimes == 2
\* days of treatment entered in the form
MaxDuration == 2
\* minutes that pass while the expansion waits for its schedule calls
MaxElapsed == 1

NaN == -2                \* Number() of a text that is no number; Invalid Date

Digits == << "0", "1", "2", "3", "4", "5", "6", "7", "8", "9" >>
IsDigit(c) == \E d \in DOMAIN Digits : Digits[d] = c
DigitValue(c) == (CHOOSE d \in DOMAIN Digits : Digits[d] = c) - 1

\* String.prototype.split with a one-character separator
RECURSIVE Split(_, _)
Split(text, sep) ==
    IF \E i \in DOMAIN text : text[i] = sep
    THEN LET i == CHOOSE j \in DOMAIN text :
                      text[j] = sep /\ \A k \in 1..(j - 1) : text[k] # sep
         IN  << SubSeq(text, 1, i - 1) >>
                 \o Split(SubSeq(text, i + 1, Len(text)), sep)
    ELSE << text >>

\* const [x, y] = pieces: a missing element is undefined
NoText == << "undefined" >>
Piece(pieces, i) == IF i \in DOMAIN pieces THEN pieces[i] ELSE NoText

\* Number(text) for the texts a form can hold: decimal digits give their
\* value, the empty text 0, anything else NaN; Number(undefined) is NaN
RECURSIVE Decimal(_)
Decimal(text) ==
    IF text = << >> THEN 0
    ELSE 10 * Decimal(SubSeq(text, 1, Len(text) - 1)) + DigitValue(text[Len(text)])

Number(text) ==
    IF \A i \in DOMAIN text : IsDigit(text[i]) THEN Decimal(text) ELSE NaN

Hour24NoMidnight(hours, period) ==
    IF hours = NaN THEN NaN
    ELSE IF period = << "P", "M" >> /\ hours # 12 THEN hours + 12
    ELSE hours

\* the 12-hour to 24-hour conversion of scheduleNotifications
Hour24(hours, period) ==
    IF hours = NaN THEN NaN
    ELSE IF period = << "P", "M" >> /\ hours # 12 THEN hours + 12
    ELSE IF period = << "A", "M" >> /\ hours = 12 THEN 0
    ELSE hours

\* notificationDate: new Date(), setDate(getDate() + day),
\* setHours(hour24, minutes, 0, 0); hours of 24 and more and minutes of 60 and
\* more roll over, NaN gives Invalid Date
NotificationDate(day, time) ==
    LET parts    == Split(time, " ")
        timePart == Piece(parts, 1)
        period   == Piece(parts, 2)
        numbers  == Split(timePart, ":")
        hours    == Number(Piece(numbers, 1))
        minutes  == Number(Piece(numbers, 2))
        hour24   == Hour24(hours, period)
    IN  IF hour24 = NaN \/ minutes = NaN THEN NaN
        ELSE (day * 24 + hour24) * 60 + minutes

\* notificationDate > new Date(); false for Invalid Date
NotPast(date, now) == date # NaN /\ date >= now
IsFuture(date, now) == date # NaN /\ date > now

\* timePattern.test(time): /^(0?[1-9]|1[0-2]):[0-5][0-9] (AM|PM)$/
TimePattern(time) ==
    /\ Len(time) \in {7, 8}
    /\ LET hour == SubSeq(time, 1, Len(time) - 6)
           rest == SubSeq(time, Len(time) - 5, Len(time))
       IN  /\ \/ Len(hour) = 1 /\ IsDigit(hour[1]) /\ hour[1] # "0"
              \/ Len(hour) = 2 /\ hour[1] = "0" /\ IsDigit(hour[2]) /\ hour[2] # "0"
              \/ Len(hour) = 2 /\ hour[1] = "1" /\ hour[2] \in {"0", "1", "2"}
           /\ rest[1] = ":"
           /\ rest[2] \in {"0", "1", "2", "3", "4", "5"}
           /\ IsDigit(rest[3])
           /\ rest[4] = " "
           /\ rest[5] \in {"A", "P"}
           /\ rest[6] = "M"

\* what the user can leave in a time field: the picker's values, typed text
\* (the field of Home is a free TextInput, index.tsx:1767-1777) and nothing
TimeStrings ==
    { << "8", ":", "0", "0", " ", "A", "M" >>,
      << "1", "2", ":", "0", "0", " ", "P", "M" >>,
      << "8", ":", "0", "0", " ", "P", "M" >>,
      << "1", "2", ":", "0", "0", " ", "A", "M" >>,
      << "1", "3", ":", "0", "0", " ", "A", "M" >>,
      << "8", ":", "6", "0", " ", "P", "M" >>,
      << "a", "b", "c" >>,
      << >> }

\* formData.times
TimesLists == UNION { [ 1..n -> TimeStrings ] : n \in 1..MaxTimes }

\* the time of day of the submission: 8:00 sharp and 15:00
Nows == { 8 * 60, 15 * 60 }

\* the pairs (day, index into scheduledTimes) in the order of the two loops,
\* numbered from 0
PairDay(x, n) == n \div Len(x.times)
PairTime(x, n) == x.times[(n % Len(x.times)) + 1]
PairDate(x, n) == NotificationDate(PairDay(x, n), PairTime(x, n))
Pairs(x) == 0..(Len(x.times) * x.duration - 1)

\* the loops of scheduleNotifications from pair n on, up to the next await:
\* the first pair whose date is in the future, or the end of the loops
NextPair(x, n, now) ==
    LET future == { m \in Pairs(x) : m >= n /\ IsFuture(PairDate(x, m), now) }
    IN  IF future = {} THEN Len(x.times) * x.duration
        ELSE CHOOSE m \in future : \A k \in future : m <= k

\* the entry scheduleNotifications schedules for pair n:
\* identifier `medication_${medication.id}_${day}_${time}`
ExpansionEntry(x, n) ==
    [ identifier |-> << PairDay(x, n), PairTime(x, n) >>,
      date |-> PairDate(x, n),
      scheduledTime |-> PairTime(x, n),
      day |-> PairDay(x, n) + 1 ]

\* scheduleNotifications runs on from pair n at time now: it awaits the
\* schedule call of the next future pair, or returns and addMedication shows
\* its success alert; skipped counts the pairs the future check has dropped
RunExpansion(x, n, now) ==
    LET m == NextPair(x, n, now)
    IN  /\ expansion' = [ x EXCEPT !.pc = IF m \in Pairs(x) THEN "scheduling"
                                                             ELSE "done",
                                   !.next = m, !.now = now,
                                   !.skipped = @ + (m - n) ]
        /\ alerts' = IF m \in Pairs(x) THEN alerts
                     ELSE alerts \cup { << "Success", x.screen >> }

\* the form as filled in, the Add button not yet pressed
Form(screen, times, duration, now) ==
    [ pc |-> "form", screen |-> screen, times |-> times, duration |-> duration,
      at |-> now, now |-> now, next |-> 0, skipped |-> 0, emitted |-> << >> ]

InitExpand ==
    /\ scheduled = {}
    /\ presented = {}
    /\ notificationAlarms = [ s \in Screens |-> [ i \in Ids |-> NoHandle ] ]
    /\ activeSounds = [ s \in Screens |-> {} ]
    /\ sounds = << >>
    /\ tasks = EmptyBag
    /\ watchdogs = << >>
    /\ clock = 0
    /\ armed = 0
    /\ alerts = {}
    /\ userActs = [ snooze |-> 0, other |-> 0 ]
    /\ log = << >>
    /\ medications = {}
    /\ lastCount = << >>
    /\ stops = EmptyBag
    /\ \E screen \in Screens, times \in TimesLists, duration \in 1..MaxDuration,
          now \in Nows :
           expansion = Form(screen, times, duration, now)

ExpansionFrame ==
    UNCHANGED << presented, notificationAlarms, activeSounds, sounds, tasks,
                 watchdogs, clock, armed, userActs, log, lastCount, stops >>

\* addMedication up to its first await.  Both screens refuse an empty time
\* field; only AddMedication tests the pattern of the times
Submit ==
    /\ expansion.pc = "form"
    /\ IF \E i \in DOMAIN expansion.times : expansion.times[i] = << >>
       THEN /\ expansion' = [ expansion EXCEPT !.pc = "rejected" ]
            /\ alerts' = alerts \cup { << "Error", "Please fill in all fields" >> }
       ELSE IF /\ expansion.screen = "add"
               /\ \E i \in DOMAIN expansion.times : ~ TimePattern(expansion.times[i])
       THEN /\ expansion' = [ expansion EXCEPT !.pc = "rejected" ]
            /\ alerts' = alerts \cup { << "Error", "Please set all medication times" >> }
       ELSE /\ expansion' = [ expansion EXCEPT !.pc = "saving" ]
            /\ alerts' = alerts
    /\ UNCHANGED << scheduled, medications >>
    /\ ExpansionFrame

\* the medication list is stored (saveMedications / AsyncStorage.setItem) and
\* scheduleNotifications starts
Saved ==
    /\ expansion.pc = "saving"
    /\ medications' = medications \cup { expansion.times }
    /\ RunExpansion(expansion, 0, expansion.now)
    /\ UNCHANGED scheduled
    /\ ExpansionFrame

\* await Notifications.scheduleNotificationAsync returns, some time later,
\* and the loops go on
Scheduled ==
    /\ expansion.pc = "scheduling"
    /\ LET entry == ExpansionEntry(expansion, expansion.next)
       IN  /\ scheduled' = ScheduleNotification(scheduled, entry)
           /\ \E now \in expansion.now..(expansion.now + 1) :
                /\ now - expansion.at <= MaxElapsed
                /\ RunExpansion([ expansion EXCEPT !.emitted = Append(@, entry.date) ],
                                expansion.next + 1, now)
    /\ UNCHANGED medications
    /\ ExpansionFrame

NextExpand == Submit \/ Saved \/ Scheduled

SpecExpand == InitExpand /\ [][NextExpand]_vars

-----------------------------------------------------------------------------
(* One time field on its own: the time picker of AddMedication writes the    *)
(* text of the chosen hour, minute and period into the field                 *)
(* (add-medication.tsx:338-362); the field of Home is typed, so its period   *)
(* may be in any case (index.tsx:1767-1777).  The text is then validated and *)
(* converted as addMedication and scheduleNotifications do.                  *)

\* Number.prototype.toString of a natural number
RECURSIVE ToText(_)
ToText(n) ==
    IF n < 10 THEN << Digits[n + 1] >>
    ELSE ToText(n \div 10) \o << Digits[(n % 10) + 1] >>

\* String.prototype.padStart(2, '0')
PadStart2(text) == IF Len(text) < 2 THEN << "0" >> \o text ELSE text

\* `${hour}:${minute.toString().padStart(2, '0')} ${period}`
TimeText(hour, minute, period) ==
    ToText(hour) \o << ":" >> \o PadStart2(ToText(minute)) \o << " " >> \o period

\* the values of the pickers, and the periods a user may type
PickerHours == 1..12
PickerMinutes == 0..59
Periods == { << "A", "M" >>, << "P", "M" >>, << "a", "m" >>, << "p", "m" >>,
             << "P", "m" >> }

InitConvert ==
    /\ scheduled = {}
    /\ presented = {}
    /\ notificationAlarms = [ s \in Screens |-> [ i \in Ids |-> NoHandle ] ]
    /\ activeSounds = [ s \in Screens |-> {} ]
    /\ sounds = << >>
    /\ tasks = EmptyBag
    /\ watchdogs = << >>
    /\ clock = 0
    /\ armed = 0
    /\ alerts = {}
    /\ userActs = [ snooze |-> 0, other |-> 0 ]
    /\ log = << >>
    /\ medications = {}
    /\ lastCount = << >>
    /\ stops = EmptyBag
    /\ \E hour \in PickerHours, minute \in PickerMinutes, period \in Periods :
           expansion = [ pc |-> "picker", hour |-> hour, minute |-> minute,
                         period |-> period ]

\* updateTime(index, newTime): the text is written into the field
EnterTime ==
    /\ expansion.pc = "picker"
    /\ expansion' = [ pc |-> "entered", hour |-> expansion.hour,
                      minute |-> expansion.minute, period |-> expansion.period,
                      time |-> TimeText(expansion.hour, expansion.minute,
                                        expansion.period) ]
    /\ UNCHANGED << scheduled, medications, alerts >>
    /\ ExpansionFrame

\* the validation of addMedication and the conversion of
\* scheduleNotifications for day 0, applied to the text of the field
ConvertTime ==
    /\ expansion.pc = "entered"
    /\ expansion' = [ expansion EXCEPT !.pc = "converted" ]
                        @@ [ accepted |-> TimePattern(expansion.time),
                             date |-> NotificationDate(0, expansion.time) ]
    /\ UNCHANGED << scheduled, medications, alerts >>
    /\ ExpansionFrame

NextConvert == EnterTime \/ ConvertTime

SpecConvert == InitConvert /\ [][NextConvert]_vars

-----------------------------------------------------------------------------
(* Deleting the medication: deleteMedication of Home (index.tsx:1307-1339;   *)
(* the same code in MedicationList, add-medication.tsx:1163-1195).  The user *)
(* deletes the medication once its schedule has been set up, and answers     *)
(* alerts with Snooze only.                                                  *)

\* notification.content.body?.includes(medicationToDelete.name): every body
\* the engine writes holds the name of its medication
BodyIncludes(entry, name) == entry.medicationName = name

DeletePending == \E t \in Pending : t.kind = "deleteMedication"

\* the confirmation dialog has been shown and answered with Delete
DeleteAsked == << "Delete Medication", "Aspirin" >> \in alerts

\* index.tsx:1308-1323: the dialog is confirmed; the list without the
\* medication is handed to saveMedications
DeleteConfirmed ==
    /\ "Aspirin" \in medications /\ ~ DeleteAsked
    /\ \A t \in Pending : t.kind # "scheduleNotifications"
    /\ alerts' = Notice("Delete Medication", "Aspirin")
    /\ tasks' = Add(tasks, Task("deleteMedication", "save", "home", "Aspirin"))
    /\ UNCHANGED << scheduled, presented, notificationAlarms, activeSounds,
                    sounds, watchdogs, clock, armed, userActs, medications,
                    lastCount >>

\* index.tsx:1323-1326: the list is stored; getAllScheduledNotificationsAsync
\* is awaited
DeleteSaved(t) ==
    /\ t \in Pending /\ t.kind = "deleteMedication" /\ t.pc = "save"
    /\ medications' = medications \ {t.id}
    /\ tasks' = Add(Remove(tasks, t), [ t EXCEPT !.pc = "getAllScheduled" ])
    /\ UNCHANGED << scheduled, presented, notificationAlarms, activeSounds,
                    sounds, watchdogs, clock, armed, alerts, userActs,
                    lastCount >>

\* index.tsx:1326-1335: the list resolved; forEach calls
\* cancelScheduledNotificationAsync for every entry whose body holds the name
\* and the handler returns without waiting for the cancels
DeleteListed(t) ==
    /\ t \in Pending /\ t.kind = "deleteMedication" /\ t.pc = "getAllScheduled"
    /\ LET matching == { n.identifier : n \in { n \in scheduled : BodyIncludes(n, t.id) } }
           cancels == { [ t EXCEPT !.pc = "cancel", !.todo = {j} ] : j \in matching }
       IN  tasks' = Remove(tasks, t) (+) SetToBag(cancels)
    /\ UNCHANGED << scheduled, presented, notificationAlarms, activeSounds,
                    sounds, watchdogs, clock, armed, alerts, userActs,
                    medications, lastCount >>

\* index.tsx:1332: one cancelScheduledNotificationAsync resolved
DeleteCancelled(t) ==
    /\ t \in Pending /\ t.kind = "deleteMedication" /\ t.pc = "cancel"
    /\ scheduled' = UNION { CancelScheduledNotification(scheduled, j) : j \in t.todo }
    /\ tasks' = Remove(tasks, t)
    /\ UNCHANGED << presented, notificationAlarms, activeSounds, sounds,
                    watchdogs, clock, armed, alerts, userActs, medications,
                    lastCount >>

Deletion ==
    \/ DeleteConfirmed /\ UNCHANGED harness
    \/ \E t \in Pending : DeleteSaved(t) /\ UNCHANGED harness
    \/ \E t \in Pending : DeleteListed(t) /\ UNCHANGED harness
    \/ \E t \in Pending : DeleteCancelled(t) /\ UNCHANGED harness

NextDelete ==
    \/ ~ DeleteAsked /\ AddMedication /\ UNCHANGED harness
    \/ \E e \in scheduled : Deliver(e) /\ UNCHANGED harness
    \/ \E e \in presented : MaySnooze /\ ResponseSnooze(e) /\ UNCHANGED harness
    \/ Deletion
    \/ Background
    \/ SnoozeFlow

SpecDelete == Init /\ [][NextDelete]_vars

-----------------------------------------------------------------------------
(* Registry calls that fail: the platform rejects an awaited call of the     *)
(* Stop, Dismiss or Snooze transition.  In responseListener the calls of     *)
(* STOP_ACTION and DISMISS_ACTION stand in no try block (index.tsx:1014-1069):*)
(* the rejection leaves the listener.  scheduleSnoozeNotification and its    *)
(* timer callback wrap their whole body (index.tsx:1206-1271, 1236-1266):    *)
(* the catch logs the error and the function returns.                        *)

RegistryCalls == {"dismiss", "getAllScheduled", "cancel", "schedule"}

\* the awaited call of handler t rejects: what follows it in the handler is
\* not run
RegistryCallFailed(t) ==
    /\ t \in Pending
    /\ t.kind \in {"STOP_ACTION", "DISMISS_ACTION", "SNOOZE_ACTION", "snoozeTimer"}
    /\ t.pc \in RegistryCalls
    /\ tasks' = Remove(tasks, t)
    /\ UNCHANGED << scheduled, presented, notificationAlarms, activeSounds,
                    sounds, watchdogs, clock, armed, alerts, userActs,
                    medications, lastCount >>

Failure == \E t \in Pending : RegistryCallFailed(t) /\ UNCHANGED harness

NextFail ==
    \/ AddMedication /\ UNCHANGED harness
    \/ \E e \in scheduled : Deliver(e) /\ UNCHANGED harness
    \/ \E e \in presented : MayAct /\ ResponseStop(e) /\ UNCHANGED harness
    \/ \E e \in presented : MayAct /\ ResponseDismiss(e) /\ UNCHANGED harness
    \/ \E e \in presented : MaySnooze /\ ResponseSnooze(e) /\ UNCHANGED harness
    \/ \E e \in presented : MayAct /\ ResponseTap(e) /\ UNCHANGED harness
    \/ System
    \/ Failure

SpecFail == Init /\ [][NextFail]_vars

-----------------------------------------------------------------------------
(* Deleting one of two medications: the list holds two medications whose     *)
(* schedules have been set up (scheduleNotifications, index.tsx:1359-1417),  *)
(* and the user deletes one of them (index.tsx:1307-1339; the same code at   *)
(* add-medication.tsx:1163-1195).  Texts are sequences of characters; each   *)
(* emoji of the body is one character.                                       *)
FrameDuration == 2

\* String.prototype.includes
Includes(text, part) ==
    \E i \in 0..(Len(text) - Len(part)) : SubSeq(text, i + 1, i + Len(part)) = part

\* index.tsx:1391  `💊 ${name}\n📋 Dose: ${dose}\n⏰ Time: ${time}\n📅 Day ${day + 1} of ${duration}`
Body(name, dose, time, day, duration) ==
    << "pill", " " >> \o name
      \o << "\n", "clipboard", " ", "D", "o", "s", "e", ":", " " >> \o dose
      \o << "\n", "alarm", " ", "T", "i", "m", "e", ":", " " >> \o time
      \o << "\n", "calendar", " ", "D", "a", "y", " " >> \o ToText(day + 1)
      \o << " ", "o", "f", " " >> \o ToText(duration)

\* index.tsx:1386-1413: the entry of one (day, time) of medication m
MedicationEntry(m, day) ==
    [ identifier     |-> << "medication", m.id, day, m.time >>,
      body           |-> Body(m.name, m.dose, m.time, day, m.duration),
      date           |-> NotificationDate(day, m.time),
      medicationName |-> m.name,
      dose           |-> m.dose,
      scheduledTime  |-> m.time,
      day            |-> day + 1,
      duration       |-> m.duration ]

\* the entries scheduleNotifications has created for medication m, submitted
\* at midnight of day 0
MedicationEntries(m) ==
    { MedicationEntry(m, day) : day \in 0..(m.duration - 1) }

\* what the user types into the form
MedicationNames == { << "D" >>, << "D", "3" >>, << "B", "1", "2" >> }
MedicationDoses == { << "1" >>, << "5", "0", "0", "m", "g" >> }
MedicationTimes == { << "8", ":", "0", "0", " ", "A", "M" >>,
                     << "1", "2", ":", "0", "0", " ", "P", "M" >> }

\* index.tsx:1425-1435: newMedication, its id the Date.now() of its submission
Medication(id, name, dose, time) ==
    [ id |-> id, name |-> name, dose |-> dose, time |-> time,
      duration |-> FrameDuration ]

InitFrame ==
    /\ \E first \in MedicationNames, second \in MedicationNames,
          doses \in MedicationDoses \X MedicationDoses,
          times \in MedicationTimes \X MedicationTimes :
          /\ first # second
          /\ medications = { Medication(1, first, doses[1], times[1]),
                             Medication(2, second, doses[2], times[2]) }
          /\ scheduled = UNION { MedicationEntries(m) : m \in medications }
    /\ presented = {}
    /\ notificationAlarms = [ s \in Screens |-> [ i \in Ids |-> NoHandle ] ]
    /\ activeSounds = [ s \in Screens |-> {} ]
    /\ sounds = << >>
    /\ tasks = EmptyBag
    /\ watchdogs = << >>
    /\ clock = 2
    /\ armed = 0
    /\ alerts = {}
    /\ userActs = [ snooze |-> 0, other |-> 0 ]
    /\ log = << >>
    /\ lastCount = << >>
    /\ stops = EmptyBag
    /\ expansion = NoExpansion

\* index.tsx:1308-1323: Delete is confirmed for medication m of the list; the
\* list without it is handed to saveMedications
DeleteOfTwoConfirmed(m) ==
    /\ m \in medications
    /\ alerts = {}
    /\ alerts' = Notice("Delete Medication", m.id)
    /\ tasks' = Add(tasks, [ Task("deleteMedication", "save", "home", m)
                             EXCEPT !.data = m ])
    /\ UNCHANGED << scheduled, presented, notificationAlarms, activeSounds,
                    sounds, watchdogs, clock, armed, userActs, medications,
                    lastCount >>

\* index.tsx:1326-1335: the list resolved; forEach calls
\* cancelScheduledNotificationAsync for every entry whose body includes the
\* name of medicationToDelete, and the handler returns
DeleteOfTwoListed(t) ==
    /\ t \in Pending /\ t.kind = "deleteMedication" /\ t.pc = "getAllScheduled"
    /\ LET matching == { n.identifier :
                           n \in { n \in scheduled : Includes(n.body, t.data.name) } }
           cancels == { [ t EXCEPT !.pc = "cancel", !.todo = {j} ] : j \in matching }
       IN  tasks' = Remove(tasks, t) (+) SetToBag(cancels)
    /\ UNCHANGED << scheduled, presented, notificationAlarms, activeSounds,
                    sounds, watchdogs, clock, armed, alerts, userActs,
                    medications, lastCount >>

NextFrame ==
    \/ \E m \in medications : DeleteOfTwoConfirmed(m) /\ UNCHANGED harness
    \/ \E t \in Pending : DeleteSaved(t) /\ UNCHANGED harness
    \/ \E t \in Pending : DeleteOfTwoListed(t) /\ UNCHANGED harness
    \/ \E t \in Pending : DeleteCancelled(t) /\ UNCHANGED harness

SpecFrame == InitFrame /\ [][NextFrame]_vars

-----------------------------------------------------------------------------
(* Snooze lineages: the alerts of both days are delivered and Snooze is      *)
(* tapped on presented alerts, also while the handler of an earlier tap has  *)
(* not passed its first await.                                               *)
MaxLineageSnoozes == 2

\* only timers are pending, and Snooze handlers that wait for their dismiss
MayTapAny ==
    /\ Polled
    /\ \A t \in Pending : \/ t.kind = "autoStop"
                          \/ t.kind = "snoozeTimer" /\ t.pc = "timer"
                          \/ t.kind = "SNOOZE_ACTION" /\ t.pc = "dismiss"

NextLineage ==
    \/ AddMedication /\ UNCHANGED harness
    \/ \E e \in scheduled : Polled /\ Deliver(e) /\ UNCHANGED harness
    \/ \E e \in presented : /\ userActs.snooze < MaxLineageSnoozes
                              /\ MayTapAny
                              /\ ResponseSnooze(e) /\ UNCHANGED harness
    \/ Expansion
    \/ \E t \in Pending : Polled /\ CreateResolved(t) /\ UNCHANGED harness
    \/ \E t \in Pending : Idle /\ AutoStopFired(t) /\ UNCHANGED harness
    \/ \E t \in Pending : Polled /\ SnoozeDismissed(t) /\ UNCHANGED harness
    \/ \E t \in Pending : Polled /\ SnoozeScheduled(t) /\ UNCHANGED harness
    \/ \E t \in Pending : Idle /\ SnoozeTimerFired(t) /\ UNCHANGED harness
    \/ \E t \in Pending : Polled /\ SnoozeRealarmScheduled(t) /\ UNCHANGED harness
    \/ Watchdog

SpecLineage == Init /\ [][NextLineage]_vars

-----------------------------------------------------------------------------
(* The pool of the add screen with its 'Stop Test Alarm' button:             *)
(* stopAllGlobalAlarms (add-medication.tsx:635-683) beside start(id) and     *)
(* stop(id).                                                                 *)

\* alarmSound: the sound of the last setAlarmSound(sound) of the add screen
\* (add-medication.tsx:599); globalAlarmSound.current is never set
AlarmSound ==
    LET created == { h \in DOMAIN sounds : sounds[h].scr = "add" }
    IN  IF created = {} THEN {} ELSE { CHOOSE h \in created : \A k \in created : k <= h }

\* add-medication.tsx:645-667: stopAsync() and unloadAsync() are issued on
\* every sound of activeSounds and on alarmSound without await, and
\* activeSounds is cleared; notificationAlarms is not touched
StopAllGlobalAlarms(p) ==
    LET released == p.active["add"] \cup AlarmSound
    IN  [ p EXCEPT !.sounds = [ h \in DOMAIN p.sounds |->
                                  IF h \in released
                                  THEN [ p.sounds[h] EXCEPT !.state = "unloaded" ]
                                  ELSE p.sounds[h] ],
                   !.active["add"] = {} ]

\* the button is pressed
PoolStopAll ==
    /\ Len(log) < MaxPoolCalls
    /\ SetPool(StopAllGlobalAlarms(Pool))
    /\ log' = Append(log, [ op |-> "stopAll", scr |-> "add", id |-> "",
                            busy |-> \E id \in Ids : Creating("add", id),
                            down |-> \E id \in Ids : TearingDown("add", id),
                            had |-> NoHandle ])
    /\ UNCHANGED << stops, expansion >>
    /\ UNCHANGED << scheduled, presented, watchdogs, clock, armed, alerts,
                    userActs, medications, lastCount >>

NextStopAll ==
    \/ \E id \in Ids : PoolStart("add", id)
    \/ \E id \in Ids : PoolStop("add", id)
    \/ PoolStopAll
    \/ \E t \in Pending : CreateResolved(t) /\ UNCHANGED harness
    \/ \E t \in Pending : AutoStopFired(t) /\ UNCHANGED harness
    \/ \E t \in Pending : StopAsyncResolved(t) /\ UNCHANGED harness
    \/ \E t \in Pending : UnloadAsyncResolved(t) /\ UNCHANGED harness

SpecStopAll == Init /\ [][NextStopAll]_vars

-----------------------------------------------------------------------------
(* Properties.  Handles, identifiers, counts and lineage ids are quantified  *)
(* over the fixed sets below.                                                *)

\* sounds one behaviour creates at most
MaxHandles == 6
Handles == 1..MaxHandles

\* the lineage ids and the counts the snoozes of one behaviour can create
SnoozeIds == { << "Aspirin", now >> : now \in 1..MaxSnoozeActs }
SnoozeCounts == 1..MaxSnoozeActs

Min(a, b) == IF a < b THEN a ELSE b

HandlesFor(scr, id) ==
    { h \in DOMAIN sounds : sounds[h].scr = scr /\ sounds[h].id = id }

LiveHandles(scr, id) == { h \in HandlesFor(scr, id) : Live(h) }

Ringing(h) == h \in DOMAIN sounds /\ Live(h)

\* the player of id is stopped: no handle is registered under id, or the one
\* that is does not ring
PlayerStopped(id) ==
    LET h == notificationAlarms["home"][id] IN h = NoHandle \/ ~ Live(h)

\* the run in which the handler of a Stop / Dismiss shows its confirmation
Handled(t, action) ==
    /\ t.kind = action
    /\ StopDismissed(t) \/ StopListed(t) \/ StopCancelled(t)
    /\ << Confirmation(action), t.id >> \in alerts'

NoneOfLineage(set, data) ==
    data.snoozeId # NoSnoozeId => \A e \in set : e.snoozeId # data.snoozeId

-----------------------------------------------------------------------------
\* C1: in every reachable state at most one live (created, looping, not yet
\* stopped) audio handle exists for an alert identifier, whatever the
\* interleaving of the start(id) calls with each other and with stop(id).
C1_AtMostOneLiveHandle ==
    \A id \in Ids : Cardinality(LiveHandles("home", id)) <= 1

-----------------------------------------------------------------------------
CallsOn(scr, id) ==
    SelectSeq(log, LAMBDA c : c.scr = scr /\ c.id = id)

\* start(id) was called twice and nothing else was called for id; the second
\* call was made after the first had completed
StartedTwiceInARow(scr, id) ==
    LET calls == CallsOn(scr, id) IN
    /\ Len(calls) = 2
    /\ calls[1].op = "start" /\ calls[2].op = "start"
    /\ ~ calls[2].busy

\* the second start has completed, the callbacks of the teardown have run,
\* and neither auto-stop timer has fired yet
TeardownDone(scr, id) ==
    /\ ~ Creating(scr, id)
    /\ ~ \E t \in Pending : t.kind = "teardown" /\ t.scr = scr /\ t.id = id
    /\ Cardinality({ t \in Pending : t.kind = "autoStop" /\ t.scr = scr /\ t.id = id }) = 2

SecondHandleOnly(scr, id) ==
    \E first, second \in HandlesFor(scr, id) :
        /\ first < second
        /\ HandlesFor(scr, id) = {first, second}
        /\ LiveHandles(scr, id) = {second}
        /\ notificationAlarms[scr][id] = second
        /\ sounds[first].state = "unloaded"

\* C2: start(id) called twice in a row, the second call after the first has
\* completed, ends (once the teardown callbacks have run) with exactly one
\* live handle, registered under id, which is the one the second call
\* created; the first handle is stopped and unloaded.
C2_RestartKeepsSecondHandle ==
    \A scr \in Screens, id \in Ids :
        StartedTwiceInARow(scr, id) /\ TeardownDone(scr, id) => SecondHandleOnly(scr, id)

-----------------------------------------------------------------------------
\* C3: every audio handle start(id) creates is eventually stopped and
\* released, without any Stop, Snooze, Dismiss or tap and without the
\* watchdog: the auto-stop timer that start arms silences it.
C3_EveryHandleEventuallyStopped ==
    \A h \in Handles : Ringing(h) ~> ~ Ringing(h)

-----------------------------------------------------------------------------
\* C4: when a Stop on a delivered alert has been handled, the player of the
\* alert's id is stopped, the presented entry of the id is dismissed and no
\* entry with the snoozeId of the stopped alert is scheduled.
C4_StopPostcondition ==
    [][\A t \in Pending :
          Handled(t, "STOP_ACTION")
              => /\ PlayerStopped(t.id)'
                 /\ ~ IsStillPresented(t.id)'
                 /\ NoneOfLineage(scheduled', t.data)]_vars

-----------------------------------------------------------------------------
\* the lineage of an alert: the entries under its identifier and the entries
\* that carry its snoozeId
SameLineage(e, id, data) ==
    \/ e.identifier = id
    \/ data.snoozeId # NoSnoozeId /\ e.snoozeId = data.snoozeId

StopStep(t) ==
    /\ t.kind = "STOP_ACTION"
    /\ StopDismissed(t) \/ StopListed(t) \/ StopCancelled(t)

\* C5: a Stop on one alert leaves every scheduled entry of another lineage
\* as it is; stopping the alert of the first day leaves the alert of the
\* second day scheduled with the same fire instant and payload.
C5_StopLeavesOtherLineages ==
    [][/\ \A e \in presented : ResponseStop(e) => scheduled' = scheduled
       /\ \A t \in Pending :
             StopStep(t) => \A e \in scheduled :
                               ~ SameLineage(e, t.id, t.data) => e \in scheduled']_vars

\* C5 (reached): the Stop on the alert of the first day has been handled and
\* the alert of the second day is scheduled as the expansion scheduled it
C5_TomorrowStillScheduled ==
    /\ << "stopped", Days[1] >> \in alerts
    /\ ~ IsStillPresented(Days[1])
    /\ OriginalEntry(Days[2], 2) \in scheduled

-----------------------------------------------------------------------------
SnoozeTasks(bag) == { t \in BagToSet(bag) : t.kind \in {"SNOOZE_ACTION", "snoozeTimer"} }

\* the Snooze is accepted: scheduleSnoozeNotification goes on with count + 1
Accepted(e) ==
    \E t \in SnoozeTasks(tasks') :
        t.id = e.identifier /\ t.n = CurrentSnoozeCount(e) + 1 /\ t.pc = "dismiss"

\* the Snooze is rejected: the notice is shown, the player is stopped, and
\* no entry, no timer and no count is touched
Rejected(e) ==
    /\ << "maxSnoozes", e.identifier >> \in alerts'
    /\ PlayerStopped(e.identifier)'
    /\ SnoozeTasks(tasks') = {}
    /\ scheduled' = scheduled /\ presented' = presented
    /\ lastCount' = lastCount /\ armed' = armed

\* C6: starting from an alert with snoozeCount 0, seven successive Snoozes
\* are accepted, the k-th on the full alarm entry of its id that carries
\* count k - 1 and going on with count k; the eighth (count 7) is rejected
\* with the max-snoozes notice, schedules no entry, arms no timer, leaves
\* the count at 7, and the player of the id is stopped.
C6_SevenSnoozesThenRejected ==
    [][\A e \in presented :
          ResponseSnooze(e)
              => /\ e.identifier = Days[1] /\ e.shouldPlayAlarm
                 /\ CurrentSnoozeCount(e) = Min(userActs.snooze, MaxSnoozes)
                 /\ IF userActs.snooze < 7 THEN Accepted(e) ELSE Rejected(e)]_vars

\* C6 (reached): the eighth Snooze has been rejected on the entry with count 7
C6_EighthSnoozeRejected ==
    /\ << "maxSnoozes", Days[1] >> \in alerts
    /\ userActs.snooze = MaxSnoozes + 1
    /\ \E e \in presented : e.snoozeCount = MaxSnoozes /\ e.shouldPlayAlarm
    /\ \A snoozeId \in DOMAIN lastCount : lastCount[snoozeId] = MaxSnoozes

-----------------------------------------------------------------------------
\* the snoozeCount of an entry, an absent one counted as 0 (index.tsx:1191)
InRange(e) == CurrentSnoozeCount(e) \in 0..MaxSnoozes

CountsInRange == \A e \in scheduled \cup presented : InRange(e)

\* the entries scheduled one after the other with one snoozeId
CountsNeverDecrease ==
    \A snoozeId \in DOMAIN lastCount : lastCount'[snoozeId] >= lastCount[snoozeId]

\* C7: the snoozeCount of every scheduled or presented entry is in 0..7, and
\* along one lineage (the entries that share a snoozeId) the snoozeCount of
\* the entries scheduled one after the other never decreases, whatever the
\* interleaving of the taps and the timers, a Snooze delivered twice for
\* the same alert included.
C7_CountInRangeAndMonotonic ==
    [](CountsInRange) /\ [][CountsNeverDecrease]_vars

-----------------------------------------------------------------------------
SnoozeAccepted(id, count) ==
    \E t \in Pending : /\ t.kind = "SNOOZE_ACTION" /\ t.id = id
                        /\ CurrentSnoozeCount(t.data) + 1 = count

IsWaitingEntry(e, id, count, snoozeId) ==
    /\ e.identifier = id /\ ~ e.shouldPlayAlarm /\ e.isSnoozeWaiting
    /\ e.snoozeCount = count /\ e.snoozeId = snoozeId

IsFullAlarmEntry(e, id, count, snoozeId) ==
    /\ e.identifier = id /\ e.shouldPlayAlarm /\ ~ e.isSnoozeWaiting
    /\ e.snoozeCount = count /\ e.snoozeId = snoozeId

WaitingScheduled(id, count, snoozeId) ==
    \E e \in scheduled : IsWaitingEntry(e, id, count, snoozeId)

\* the full alarm entry is the entry scheduled under id and start(id) is in
\* player creation
Realarmed(id, count, snoozeId) ==
    /\ \E e \in scheduled : IsFullAlarmEntry(e, id, count, snoozeId)
    /\ \A e \in scheduled : e.identifier = id => IsFullAlarmEntry(e, id, count, snoozeId)
    /\ Creating("home", id)

\* a Snooze below the cap stops the player in the run that receives it: the
\* handle registered under the id no longer rings and nothing is registered
SnoozeStopsPlayer ==
    \A e \in presented :
        ResponseSnooze(e) /\ CurrentSnoozeCount(e) < MaxSnoozes
            => /\ PlayerStopped(e.identifier)'
               /\ LET h == notificationAlarms["home"][e.identifier] IN
                  h # NoHandle => sounds'[h].state # "playing"

\* the run of the handler that schedules the entry of the snooze leaves a
\* waiting entry with the new count scheduled under the identifier
SnoozeSchedulesWaiting ==
    \A t \in Pending :
        SnoozeScheduled(t) => WaitingScheduled(t.id, t.n, t.sid)'

-----------------------------------------------------------------------------
\* C9: when a Dismiss on a waiting entry has been handled, the entry is
\* dismissed and no entry of its lineage is scheduled; from then on the
\* snooze that created the waiting entry schedules no full alarm entry and
\* starts no handle for the identifier.
C9_DismissIsPermanent ==
    [][/\ \A t \in Pending :
             Handled(t, "DISMISS_ACTION")
                 => /\ ~ IsStillPresented(t.id)'
                    /\ NoneOfLineage(scheduled', t.data)
       /\ \A t \in Pending :
             << "dismissed", t.id >> \in alerts => ~ SnoozeRealarmScheduled(t)]_vars

-----------------------------------------------------------------------------
\* a watchdog of id has polls left before its ceiling
WatchdogPolling(id) ==
    \E w \in DOMAIN watchdogs :
        /\ watchdogs[w].id = id /\ watchdogs[w].scr = "home"
        /\ watchdogs[w].checking /\ watchdogs[w].ticks > 0

\* the alert of id is no longer presented while its handle h rings and its
\* watchdog polls
Disappeared(id, h) ==
    /\ ~ IsStillPresented(id)
    /\ notificationAlarms["home"][id] = h /\ Ringing(h)
    /\ WatchdogPolling(id)

\* C10: when an alert that is presented with a live handle disappears from
\* the presented set while its watchdog is polling, without a Stop, Snooze,
\* Dismiss or tap, the watchdog eventually calls stop(id) and the handle of
\* the id is no longer live.
C10_WatchdogSilencesDisappeared ==
    \A id \in Ids, h \in Handles : Disappeared(id, h) ~> ~ Ringing(h)

\* C10 (reached): the alert was swiped away and the watchdog of its id has
\* stopped and unloaded the handle before the auto-stop timer of the handle
\* has fired
C10_SilencedByWatchdog ==
    \E w \in DOMAIN watchdogs, h \in DOMAIN sounds :
        /\ watchdogs[w].id = sounds[h].id /\ ~ watchdogs[w].checking
        /\ sounds[h].state = "unloaded"
        /\ ~ IsStillPresented(sounds[h].id)
        /\ userActs.other > 0
        /\ \E t \in Pending : t.kind = "autoStop" /\ t.id = sounds[h].id

-----------------------------------------------------------------------------
\* C11: a watchdog armed for one delivery of an alert calls the implicit
\* stop at most once: after the first poll that finds the identifier absent
\* from the presented set, no later poll of that watchdog (in flight or
\* still to be issued) calls stop for the identifier again.
C11_WatchdogStopsAtMostOnce ==
    \A w \in BagToSet(stops) : CopiesIn(w, stops) <= 1

-----------------------------------------------------------------------------
\* the run of a poll that finds the identifier absent: the implicit stop
ImplicitStop(t) == PollResolved(t) /\ ~ IsStillPresented(t.id)

\* the handles of the other identifiers and of the other screen are as they were
OtherHandlesKept(scr, id) ==
    /\ \A s \in Screens, i \in Ids :
          (s # scr \/ i # id) => notificationAlarms'[s][i] = notificationAlarms[s][i]
    /\ DOMAIN sounds' = DOMAIN sounds
    /\ \A h \in DOMAIN sounds :
          (sounds[h].scr # scr \/ sounds[h].id # id) => sounds'[h] = sounds[h]

-----------------------------------------------------------------------------
\* start(id) has completed and stop(id) was then called twice, nothing else
StoppedTwice(scr, id) ==
    LET calls == CallsOn(scr, id) IN
    /\ Len(calls) = 3
    /\ calls[1].op = "start" /\ calls[2].op = "stop" /\ calls[3].op = "stop"
    /\ ~ calls[2].busy

\* nothing of the identifier is in flight
Quiet(scr, id) == ~ Creating(scr, id) /\ ~ TearingDown(scr, id)

StoppedAndUnregistered(scr, id) ==
    /\ notificationAlarms[scr][id] = NoHandle
    /\ \A h \in HandlesFor(scr, id) :
          sounds[h].state = "unloaded" /\ h \notin activeSounds[scr]

\* a stop(id) that follows a stop(id) is called; no start(id) was suspended
\* in createAsync when the first was called
SecondStop(scr, id) ==
    LET calls == CallsOn(scr, id) IN
    /\ PoolStop(scr, id)
    /\ calls # << >>
    /\ calls[Len(calls)].op = "stop" /\ ~ calls[Len(calls)].busy

-----------------------------------------------------------------------------
\* the handle the start that armed the timer t created has been stopped, and
\* another, live handle is registered under the identifier of t
NewerHandle(t) ==
    LET h == notificationAlarms[t.scr][t.id] IN
    /\ ~ Live(t.h)
    /\ h # NoHandle /\ h # t.h /\ Live(h)

\* the step leaves the handle registered under (scr, id) registered and as
\* it is, and starts no teardown of it
HandleKept(scr, id) ==
    LET h == notificationAlarms[scr][id] IN
    /\ notificationAlarms'[scr][id] = h
    /\ sounds'[h] = sounds[h]
    /\ \A x \in BagToSet(tasks') : x.kind = "teardown" /\ x.h = h => x \in Pending

\* C14: an auto-stop timer armed by one start(id) stops only the handle this
\* start created: when that handle has been stopped and a newer handle is
\* registered under the identifier, the stale timer firing leaves the newer
\* handle live and registered.
C14_StaleAutoStopSparesNewerHandle ==
    [][\A t \in Pending :
          AutoStopFired(t) /\ NewerHandle(t) => HandleKept(t.scr, t.id)]_vars

-----------------------------------------------------------------------------
\* C15: stop(id) for an identifier that has no registered handle is a no-op:
\* it leaves the by-id map, the all-active set, the sounds, the scheduled
\* and the presented entries unchanged, and starts no teardown.
C15_StopWithoutHandleIsNoOp ==
    [][\A scr \in Screens, id \in Ids :
          PoolStop(scr, id) /\ notificationAlarms[scr][id] = NoHandle
              => /\ notificationAlarms' = notificationAlarms
                 /\ activeSounds' = activeSounds
                 /\ sounds' = sounds
                 /\ tasks' = tasks
                 /\ scheduled' = scheduled /\ presented' = presented]_vars

\* C15 (reached): stop(id) was called with nothing registered under id after
\* a start of another identifier of the screen, whose handle is registered,
\* active and live
C15_StoppedUnknownId ==
    \E i, j \in DOMAIN log :
        /\ j < i
        /\ log[i].op = "stop" /\ log[i].had = NoHandle
        /\ log[j].op = "start" /\ log[j].scr = log[i].scr /\ log[j].id # log[i].id
        /\ LET h == notificationAlarms[log[j].scr][log[j].id] IN
           /\ log[j].had = NoHandle
           /\ h # NoHandle /\ Live(h) /\ h \in activeSounds[log[j].scr]

-----------------------------------------------------------------------------
OnePerIdentifier(set) ==
    \A id \in Ids : Cardinality(EntriesOf(set, id)) <= 1

\* the entry the step schedules is the only one under its identifier
SnoozeReplaces ==
    \A t \in Pending :
        /\ SnoozeScheduled(t)
              => /\ Cardinality(EntriesOf(scheduled', t.id)) = 1
                 /\ \A e \in EntriesOf(scheduled', t.id) :
                       IsWaitingEntry(e, t.id, t.n, t.sid)
        /\ SnoozeRealarmScheduled(t)
              => /\ Cardinality(EntriesOf(scheduled', t.id)) = 1
                 /\ \A e \in EntriesOf(scheduled', t.id) :
                       IsFullAlarmEntry(e, t.id, t.n, t.sid)

-----------------------------------------------------------------------------
\* every time of the submitted form has the pattern of the time picker
ValidTimes == \A i \in DOMAIN expansion.times : TimePattern(expansion.times[i])

ExpansionDone == expansion.pc = "done"

\* C17: for every valid times list, also one in which a time string occurs
\* twice, the registry holds after the expansion len(times) * durationDays
\* entries less the pairs dropped because their instant was not in the future
C17_OneEntryPerFuturePair ==
    ExpansionDone /\ ValidTimes
        => Cardinality(scheduled)
              = Len(expansion.times) * expansion.duration - expansion.skipped

-----------------------------------------------------------------------------
\* C18: for valid times entered in any order, the instants the expansion
\* schedules come in ascending order: none is earlier than the one before it
C18_EmittedAscending ==
    ValidTimes
        => \A i \in 1..(Len(expansion.emitted) - 1) :
               expansion.emitted[i] <= expansion.emitted[i + 1]

-----------------------------------------------------------------------------
\* C19: every entry the expansion creates fires strictly later than the
\* submission, and a pair whose instant is not later than now is never handed
\* to the scheduler
C19_OnlyFutureScheduled ==
    /\ \A e \in scheduled : e.date # NaN /\ e.date > expansion.at
    /\ expansion.pc = "scheduling"
          => LET date == PairDate(expansion, expansion.next)
             IN  date # NaN /\ date > expansion.now /\ expansion.now >= expansion.at

\* a pair whose instant is the very minute of the submission was dropped, a
\* later day of the same time is in the registry
C19_PresentMinuteSkipped ==
    /\ ExpansionDone
    /\ \E n, m \in Pairs(expansion) :
          /\ PairDate(expansion, n) = expansion.at
          /\ PairTime(expansion, m) = PairTime(expansion, n)
          /\ EntriesOf(scheduled, ExpansionEntry(expansion, n).identifier) = {}
          /\ ExpansionEntry(expansion, m) \in scheduled

-----------------------------------------------------------------------------
\* C20: on either screen, an add whose times list holds a malformed time is
\* refused before any effect: nothing is scheduled, the stored list is not
\* written
C20_MalformedBatchRejected ==
    ~ ValidTimes => scheduled = {} /\ medications = {}

-----------------------------------------------------------------------------
\* the period of the field in capitals
Upper(period) ==
    [ i \in DOMAIN period |->
        CASE period[i] = "a" -> "A" [] period[i] = "p" -> "P"
          [] period[i] = "m" -> "M" [] OTHER -> period[i] ]

Converted == expansion.pc = "converted"

\* C21: for every valid 12-hour time the conversion gives 12 AM -> 0,
\* h AM -> h, 12 PM -> 12, h PM -> h + 12 (h in 1..11) and keeps the minute,
\* so the hour of day is in 0..23
C21_TwentyFourHourConversion ==
    Converted /\ expansion.period \in { << "A", "M" >>, << "P", "M" >> }
        => LET h == expansion.hour
               hourOfDay == expansion.date \div 60
           IN  /\ expansion.date # NaN
               /\ expansion.date % 60 = expansion.minute
               /\ hourOfDay \in 0..23
               /\ hourOfDay = IF expansion.period = << "A", "M" >>
                              THEN (IF h = 12 THEN 0 ELSE h)
                              ELSE (IF h = 12 THEN 12 ELSE h + 12)

\* half past midnight, entered as 12:30 AM, has been converted
C21_MidnightConverted ==
    /\ Converted
    /\ expansion.hour = 12 /\ expansion.minute = 30
    /\ expansion.period = << "A", "M" >>
    /\ expansion.accepted /\ expansion.date = 30

-----------------------------------------------------------------------------
\* C22: a time whose period is in lower or mixed case is accepted by the
\* validation and scheduled at the hour of day of the same time with the
\* period in capitals
C22_PeriodCaseInsensitive ==
    Converted
        => /\ expansion.accepted
           /\ expansion.date
                 = NotificationDate(0, TimeText(expansion.hour, expansion.minute,
                                                Upper(expansion.period)))

-----------------------------------------------------------------------------
\* the medication is out of the stored list and every cancel deleteMedication
\* has issued has resolved
Deleted(name) == DeleteAsked /\ name \notin medications /\ ~ DeletePending

\* the calls of playNotificationAlarm made so far: the players created and
\* the creations in flight
StartsOf(bag, created) ==
    Len(created)
      + BagCardinality([ t \in { t \in BagToSet(bag) : t.kind = "play" } |-> bag[t] ])

\* C23: once the deletion of a medication has completed, no entry of that
\* medication is scheduled, and none is scheduled and no player is started
\* for it afterwards, not even by a snooze re-alarm pending at the deletion
C23_DeletedMedicationIsSilent ==
    /\ [](Deleted("Aspirin")
            => \A e \in scheduled : e.medicationName # "Aspirin")
    /\ [][Deleted("Aspirin") => StartsOf(tasks', sounds') = StartsOf(tasks, sounds)]_vars

-----------------------------------------------------------------------------
\* the handler of t goes on with the call that follows a dismiss: the list of
\* the scheduled entries in Stop and Dismiss (when the payload has a lineage),
\* the schedule call in Snooze and in its timer
GoesOnAfterDismiss(t, bag) ==
    IF t.kind \in {"STOP_ACTION", "DISMISS_ACTION"}
    THEN t.data.snoozeId # NoSnoozeId
            => [ t EXCEPT !.pc = "getAllScheduled" ] \in BagToSet(bag)
    ELSE [ t EXCEPT !.pc = "schedule" ] \in BagToSet(bag)

\* C24: when one registry call of a Stop, Snooze or Dismiss transition fails
\* (the platform denies the dismiss of the presented entry), the steps that
\* follow it are still run: Stop and Dismiss go on to cancel the lineage,
\* Snooze goes on to schedule the waiting entry and the full alarm
C24_FailureDoesNotAbort ==
    [][\A t \in Pending :
          RegistryCallFailed(t) /\ t.pc = "dismiss" => GoesOnAfterDismiss(t, tasks')]_vars

-----------------------------------------------------------------------------
\* the handles registered under the other identifiers, and their sounds
OthersUntouched(id) ==
    \A j \in Ids \ {id} :
        LET h == notificationAlarms["home"][j] IN
        /\ notificationAlarms'["home"][j] = h
        /\ h # NoHandle => sounds'[h] = sounds[h]

\* C25: a plain tap on an alert stops the player of its identifier and
\* changes nothing else: the scheduled entries with their payloads and
\* counts, and a pending snooze re-alarm, stay as they are, whether the entry
\* was waiting in a snooze or not
C25_TapChangesNoScheduling ==
    [][\A e \in presented :
          ResponseTap(e)
            => /\ scheduled' = scheduled
               /\ tasks' = tasks
               /\ lastCount' = lastCount
               /\ notificationAlarms'["home"][e.identifier] = NoHandle
               /\ \A h \in DOMAIN sounds :
                     h = notificationAlarms["home"][e.identifier] => ~ Live(h)'
               /\ OthersUntouched(e.identifier)]_vars

\* the waiting entry of a snooze was tapped while the re-alarm timer of that
\* snooze is pending and the alert of the next day is scheduled
C25_WaitingEntryTapped ==
    \E id \in Ids :
        /\ << "snoozedInfo", id >> \in alerts
        /\ \E t \in Pending : t.kind = "snoozeTimer" /\ t.pc = "timer" /\ t.id = id
        /\ \E e \in scheduled : e.identifier # id

-----------------------------------------------------------------------------
\* C26: the delivery of an alert in the foreground starts a player for its
\* identifier if and only if shouldPlayAlarm is true in its payload; the
\* delivery of a waiting entry of a snooze starts none
C26_PlayerStartedIffShouldPlay ==
    [][\A e \in scheduled :
          Deliver(e)
            => /\ e.shouldPlayAlarm
                     => /\ StartsOf(tasks', sounds') = StartsOf(tasks, sounds) + 1
                        /\ Creating("home", e.identifier)'
               /\ ~ e.shouldPlayAlarm
                     => /\ StartsOf(tasks', sounds') = StartsOf(tasks, sounds)
                        /\ sounds' = sounds]_vars

\* the waiting entry of a snooze is presented and nothing plays or is about
\* to play
C26_WaitingEntryDeliveredSilently ==
    \E e \in presented :
        /\ e.isSnoozeWaiting /\ ~ e.shouldPlayAlarm
        /\ \A t \in Pending : t.kind # "play"
        /\ \A h \in DOMAIN sounds : ~ Live(h)
        /\ \E w \in DOMAIN watchdogs :
              watchdogs[w].id = e.identifier /\ watchdogs[w].born > e.born

-----------------------------------------------------------------------------
\* watchdog w has ended: its ceiling has passed or one of its polls has
\* found the alert gone
Terminated(w) == ~ watchdogs[w].checking \/ w \in BagToSet(stops)

\* C27: every watchdog ends at its ceiling (30 s on the home screen, 10 s on
\* the add screen) or at its first detection, whichever comes first: from
\* then on it issues no poll of the presented set and calls stop no more
C27_WatchdogEndsPolling ==
    /\ [][\A w \in DOMAIN watchdogs : WatchdogTick(w) => ~ Terminated(w)]_vars
    /\ [][\A t \in Pending :
             PollResolved(t) /\ ~ IsStillPresented(t.id)
                => t.n \notin BagToSet(stops)]_vars

-----------------------------------------------------------------------------
\* the two shapes of an entry
FullAlarmShape(e) ==
    /\ e.shouldPlayAlarm /\ ~ e.isSnoozeWaiting
    /\ e.categoryIdentifier = "MEDICATION_REMINDER"
    /\ CategoryActions(e.categoryIdentifier) = {"STOP_ACTION", "SNOOZE_ACTION"}

WaitingShape(e) ==
    /\ ~ e.shouldPlayAlarm /\ e.isSnoozeWaiting
    /\ e.categoryIdentifier = "MEDICATION_SNOOZED"
    /\ CategoryActions(e.categoryIdentifier) = {"DISMISS_ACTION"}

\* C28: every entry of the engine, scheduled or presented, is a full alarm
\* entry (plays, not waiting, buttons Stop and Snooze) or a waiting entry of
\* a snooze (silent, waiting, button Dismiss), never both and never neither;
\* so Dismiss is answered only on a waiting entry, Stop and Snooze only on a
\* full alarm entry
C28_TwoShapesOfEntry ==
    /\ [](\A e \in scheduled \cup presented :
             FullAlarmShape(e) # WaitingShape(e))
    /\ [][\A e \in presented :
             /\ ResponseDismiss(e) => WaitingShape(e)
             /\ ResponseStop(e) \/ ResponseSnooze(e) => FullAlarmShape(e)]_vars

\* the waiting entry of a snooze was presented (and tapped), and the full
\* alarm entry that replaced it is presented now
C28_BothShapesSeen ==
    \E e \in presented :
        /\ FullAlarmShape(e) /\ e.snoozeCount = 1
        /\ << "snoozedInfo", e.identifier >> \in alerts

-----------------------------------------------------------------------------
\* Stop on the alert of id has been handled and Snooze was never tapped: the
\* delivery of id was the only start for id, and no other can follow
StoppedForGood(id) == << "stopped", id >> \in alerts /\ userActs.snooze = 0

\* C29: once Stop (Snooze, Dismiss) on the alert of id has been handled, no
\* handle of id is live before the next start for id, in every interleaving,
\* also when the start made by the delivery was still creating its player
\* when the stop of the action ran
C29_SilentAfterAction ==
    \A id \in Ids :
        StoppedForGood(id)
            => \A h \in DOMAIN sounds : sounds[h].id = id => ~ Live(h)

-----------------------------------------------------------------------------
\* the first run of the handler of a response on e
Responded(e) ==
    ResponseStop(e) \/ ResponseDismiss(e) \/ ResponseSnooze(e) \/ ResponseTap(e)

\* C30: each handler of Stop, Snooze, Dismiss and of the plain tap stops the
\* player of the identifier before its first registry call; a registry call
\* that fails afterwards touches no player, and a stopped handle does not
\* play again, so the handle the action found stays silent
C30_StopBeforeRegistryCalls ==
    /\ [][\A e \in presented :
             Responded(e)
               => /\ PlayerStopped(e.identifier)'
                  /\ \A h \in DOMAIN sounds :
                        h = notificationAlarms["home"][e.identifier] => ~ Live(h)'
                  /\ scheduled' = scheduled /\ presented' = presented]_vars
    /\ [][\A t \in Pending :
             RegistryCallFailed(t)
               => sounds' = sounds /\ notificationAlarms' = notificationAlarms]_vars
    /\ [][\A h \in DOMAIN sounds : ~ Live(h) => ~ Live(h)']_vars

\* Stop was tapped on a ringing alert and its dismiss was rejected: the alert
\* is still presented, no confirmation was shown, and the handle is unloaded
\* although its auto-stop timer has not fired
C30_SilentAfterFailedDismiss ==
    \E e \in presented, h \in DOMAIN sounds :
        /\ e.shouldPlayAlarm /\ sounds[h].id = e.identifier
        /\ sounds[h].state = "unloaded"
        /\ userActs = [ snooze |-> 0, other |-> 1 ] /\ alerts = {}
        /\ \A t \in Pending : t.kind \notin {"STOP_ACTION", "DISMISS_ACTION"}
        /\ \E t \in Pending : t.kind = "autoStop" /\ t.h = h

-----------------------------------------------------------------------------
\* C31: after stopAll on the add screen no handle of the screen is live and
\* none is registered: the all-active set is empty and the by-id map has no
\* entry, so no later stop(id) or start(id) finds a released handle
C31_StopAllEmptiesPool ==
    [][PoolStopAll
         => /\ \A h \in DOMAIN sounds : sounds[h].scr = "add" => ~ Live(h)'
            /\ activeSounds'["add"] = {}
            /\ \A id \in Ids : notificationAlarms'["add"][id] = NoHandle]_vars

\* the handles registered under some id in the by-id map of a screen
Registered(scr) ==
    { notificationAlarms[scr][id] : id \in Ids } \ { NoHandle }

\* C32: in every reachable state of the pool the by-id map and the all-active
\* set describe the same handles: a handle is in the all-active set exactly
\* if it is registered under some id, and every such handle is live
C32_MapAndSetAgree ==
    \A scr \in Screens :
        /\ activeSounds[scr] = Registered(scr)
        /\ \A h \in activeSounds[scr] \cup Registered(scr) : Live(h)

\* the lineage ids carried by the entries of the alert `id` (the snooze
\* entries reuse the identifier of the alert they were created from)
LineageIds(id) ==
    { e.snoozeId : e \in { x \in scheduled \cup presented : x.identifier = id } }
       \ { NoSnoozeId }

\* C33: the lineage id of an alert is assigned once and carried unchanged by
\* every waiting entry and full alarm entry of its snooze chain (the entries
\* of one alert never carry two lineage ids), and two different original
\* alerts never share a lineage id
C33_OneLineagePerAlert ==
    /\ \A id \in Ids : Cardinality(LineageIds(id)) <= 1
    /\ \A id \in Ids, other \in Ids :
          id # other => LineageIds(id) \cap LineageIds(other) = {}

\* C34: deleting a medication cancels only the entries derived from it:
\* every entry derived from a medication that is still in the list stays
\* scheduled, with its fire instant and payload unchanged
C34_OtherMedicationsUntouched ==
    \A m \in medications : MedicationEntries(m) \subseteq scheduled

=============================================================================
